---- MODULE Spec2Model ----
(***************************************************************************)
(* SmartPay integration layer: the transaction guard (acquire_locks /     *)
(* release_locks over the shared cache), the session token manager        *)
(* (SmartPayService._get_active_token / _get_new_token), the gateway      *)
(* client (SmartPayService._make_request) and the audit log written by    *)
(* the money-moving views (sell_power, pay_bill, pay_arrear,              *)
(* transfer_amount).                                                      *)
(*                                                                         *)
(* Every request handler runs in its own worker.  A handler is cut into   *)
(* atomic steps at its accesses to shared state: the cache, the token     *)
(* table, the audit table, the gateway and the clock.  Local computation  *)
(* is folded into the step of the shared access that precedes it.         *)
(***************************************************************************)
EXTENDS Integers, Sequences, FiniteSets, TLC

(* ---------------------------------------------------------------------- *)
(* Program constants (seconds).                                            *)
(* ---------------------------------------------------------------------- *)
LockTTL == 30
TokenTimeout == 20
RequestTimeout == 30
BufferSeconds == 300
TokenExpiredState == -95131
\* fraction bits of a double below 10^10 (max_digits=12, decimal_places=2): 52 - 33
FractionBits == 19
\* SmartPayRequestSerializer.count: IntegerField(default=5)
CountDefault == 5
\* SmartPayRequestSerializer.amount: DecimalField(max_digits=12, decimal_places=2)
MaxDigits == 12
DecimalPlaces == 2

(* ---------------------------------------------------------------------- *)
(* Bounds of the model.                                                    *)
(* ---------------------------------------------------------------------- *)
\* the clock advances in steps of TickSize up to MaxTime
TickSize == 10
MaxTime == 30
\* rows the token table may hold
MaxTokens == 3
\* entries the gateway's 'details' list may have
MaxDetails == 6
\* instants of time.time() told apart within one tick of the clock
SubTicks == 2

Procs == {"w1", "w2"}

\* a text is held as python holds a str: the sequence of its code points
T1 == <<84, 49>>
T2 == <<84, 50>>
R1 == <<82, 49>>
R2 == <<82, 50>>
\* the placeholder in the slot of a text the request does not carry (the record's
\* 'absent' names the keys that are missing), and the empty text
NoText == <<>>

TxnIds == {T1, T2}
Resources == {R1, R2}

Guarded == {"sell_power", "pay_bill"}
Unguarded == {"pay_arrear", "transfer_amount"}
Endpoints == Guarded \cup Unguarded

(* ---------------------------------------------------------------------- *)
(* The request serializer: the 'amount' field.                             *)
(* ---------------------------------------------------------------------- *)
\* an amount as the caller's JSON carries it: an integer, a float (python prints it
\* with its shortest digits) or a string; sign, integer part, fractional digits
RawAmount(form, neg, whole, frac) ==
    [form |-> form, neg |-> neg, whole |-> whole, frac |-> frac]

\* DecimalField.to_internal_value: Decimal(str(data)), quantized to two places;
\* the Decimal is held as its number of hundredths
to_internal_value(raw) ==
    LET f == raw.frac
        h == IF Len(f) = 0 THEN 0
             ELSE IF Len(f) = 1 THEN f[1] * 10
             ELSE f[1] * 10 + f[2]
        c == raw.whole * 100 + h IN
    IF raw.neg THEN 0 - c ELSE c

\* the number of decimal digits of a natural number
RECURSIVE DigitCount(_)
DigitCount(n) == IF n < 10 THEN 1 ELSE 1 + DigitCount(n \div 10)

\* DecimalField(max_digits=12, decimal_places=2) refuses a third fractional digit and
\* more than ten digits before the decimal point, validate_amount refuses value <= 0
is_valid_amount(raw) ==
    /\ Len(raw.frac) <= DecimalPlaces
    /\ DigitCount(raw.whole) <= MaxDigits - DecimalPlaces
    /\ to_internal_value(raw) > 0

\* the characters str.strip() removes: every code point c with chr(c).isspace(),
\* that is the ASCII controls 9-13 and 28-31, the space, NEL, the no-break space and
\* the Unicode space, line and paragraph separators
Whitespace ==
    (9..13) \cup (28..32) \cup {133, 160, 5760} \cup (8192..8202)
        \cup {8232, 8233, 8239, 8287, 12288}

\* str.strip(): the text without its leading and trailing whitespace
RECURSIVE lstrip(_)
lstrip(t) ==
    IF Len(t) > 0 /\ Head(t) \in Whitespace THEN lstrip(Tail(t)) ELSE t

RECURSIVE rstrip(_)
rstrip(t) ==
    IF Len(t) > 0 /\ t[Len(t)] \in Whitespace
    THEN rstrip(SubSeq(t, 1, Len(t) - 1))
    ELSE t

strip(t) == rstrip(lstrip(t))

\* CharField (trim_whitespace=True, allow_blank=False) of a text: run_validation
\* refuses a text that is empty once stripped, ProhibitNullCharactersValidator a text
\* holding U+0000 and ProhibitSurrogateCharactersValidator one holding a surrogate
\* (U+D800..U+DFFF)
is_valid_text(t) ==
    /\ strip(t) # <<>>
    /\ \A n \in 1..Len(t) : t[n] # 0 /\ t[n] \notin 55296..57343

(* ---------------------------------------------------------------------- *)
(* The request serializer: the 'count' field.                              *)
(* ---------------------------------------------------------------------- *)
\* 'count' as the caller's JSON carries it: left out, <<"int", n>> for a JSON integer,
\* <<"str", text>> for a JSON string
Omitted == <<"absent", <<>>>>

\* the code points of the Unicode decimal digit zeros (category Nd comes in runs of
\* ten, zero to nine): int() reads every one of these digits
DigitZeros ==
    {48, 1632, 1776, 1984, 2406, 2534, 2662, 2790, 2918, 3046, 3174, 3302, 3430, 3558,
     3664, 3792, 3872, 4160, 4240, 6112, 6160, 6470, 6608, 6784, 6800, 6992, 7088, 7232,
     7248, 42528, 43216, 43264, 43472, 43504, 43600, 44016, 65296, 66720, 68912, 69734,
     69872, 69942, 70096, 70384, 70736, 70864, 71248, 71360, 71472, 71904, 72016, 72784,
     73040, 73120, 92768, 92864, 93008, 120782, 120792, 120802, 120812, 120822, 123200,
     123632, 125264, 130032}

is_digit(c) == \E z \in DigitZeros : c \in z..(z + 9)

digit_value(c) == c - (CHOOSE z \in DigitZeros : c \in z..(z + 9))

\* the whitespace int() skips around a number: str.isspace() without the ASCII
\* separators 28-31
IntSpace == Whitespace \ (28..31)

RECURSIVE strip_of(_, _)
strip_of(t, S) ==
    IF Len(t) > 0 /\ Head(t) \in S THEN strip_of(Tail(t), S)
    ELSE IF Len(t) > 0 /\ t[Len(t)] \in S THEN strip_of(SubSeq(t, 1, Len(t) - 1), S)
    ELSE t

RECURSIVE rstrip_zeros(_)
rstrip_zeros(t) ==
    IF Len(t) > 0 /\ t[Len(t)] = 48 THEN rstrip_zeros(SubSeq(t, 1, Len(t) - 1)) ELSE t

\* IntegerField.re_decimal.sub('', s) with re_decimal = r'\.0*\s*$': a '.' followed by
\* zeros and then whitespace up to the end is cut off, any other text stays
re_decimal_sub(s) ==
    LET u == rstrip_zeros(rstrip(s)) IN
    IF Len(u) > 0 /\ u[Len(u)] = 46 THEN SubSeq(u, 1, Len(u) - 1) ELSE s

RECURSIVE digits_value(_, _)
digits_value(d, acc) ==
    IF d = <<>> THEN acc
    ELSE digits_value(Tail(d),
                      IF Head(d) = 95 THEN acc ELSE acc * 10 + digit_value(Head(d)))

\* int(s) of a str: whitespace around, a sign, then digits with single underscores
\* between them; ok is FALSE where int() raises ValueError
int_of_str(s) ==
    LET u == strip_of(s, IntSpace)
        signed == Len(u) > 0 /\ u[1] \in {43, 45}
        d == IF signed THEN Tail(u) ELSE u
        ok == /\ Len(d) > 0
              /\ is_digit(d[1]) /\ is_digit(d[Len(d)])
              /\ \A n \in 1..Len(d) :
                    \/ is_digit(d[n])
                    \/ d[n] = 95 /\ is_digit(d[n - 1]) /\ is_digit(d[n + 1])
        v == IF ok THEN digits_value(d, 0) ELSE 0 IN
    [ok |-> ok, value |-> IF signed /\ u[1] = 45 THEN 0 - v ELSE v]

\* IntegerField.to_internal_value: int(re_decimal.sub('', str(data))); a string longer
\* than MAX_STRING_LENGTH = 1000 is refused unread
is_valid_count(c) ==
    \/ c[1] \in {"absent", "int"}
    \/ c[1] = "str" /\ Len(c[2]) <= 1000 /\ int_of_str(re_decimal_sub(c[2])).ok

\* validated_data['count']: the default when the caller left it out, else the integer
validated_count(c) ==
    IF c[1] = "absent" THEN CountDefault
    ELSE IF c[1] = "int" THEN c[2]
    ELSE int_of_str(re_decimal_sub(c[2])).value

(* ---------------------------------------------------------------------- *)
(* Requests.                                                               *)
(* ---------------------------------------------------------------------- *)
\* the keys of request.data a view reads besides 'count'; resource_id stands for the
\* one the view reads of meter_number, bill_code, recipient_value, customer_reference,
\* transaction_code and new_password
AllFields == {"transaction_id", "resource_id", "amount", "phone", "verify_code"}

\* the ids as the caller sent them (request.data)
RequestData(t, r) == [transaction_id |-> t, resource_id |-> r]

NoRaw == RawAmount("none", FALSE, 0, <<>>)

\* a request as it arrives, without the keys in 'absent' (their slots hold NoText and
\* NoRaw); 'valid', the ids and 'amount' are what the serializer makes of it.  Every
\* field is required=False: a key that is absent is not validated and is missing from
\* validated_data.  CharField.to_internal_value strips the text.
RequestOf(e, t, r, raw, c, absent) ==
    LET amount_ok == "amount" \in absent \/ is_valid_amount(raw) IN
    [endpoint |-> e,
     valid |-> /\ amount_ok
               /\ "transaction_id" \in absent \/ is_valid_text(t)
               /\ "resource_id" \in absent \/ is_valid_text(r)
               /\ is_valid_count(c),
     transaction_id |-> IF "transaction_id" \in absent THEN NoText ELSE strip(t),
     resource_id |-> IF "resource_id" \in absent THEN NoText ELSE strip(r),
     amount |-> IF "amount" \notin absent /\ amount_ok THEN to_internal_value(raw) ELSE 0,
     raw |-> IF "amount" \in absent THEN NoRaw ELSE raw,
     data |-> RequestData(IF "transaction_id" \in absent THEN NoText ELSE t,
                          IF "resource_id" \in absent THEN NoText ELSE r),
     count |-> c, absent |-> absent]

\* a request to a money-moving view that carries every key the view reads
Request(e, t, r, raw) == RequestOf(e, t, r, raw, Omitted, {})

\* the request i with the keys K left out
Without(i, K) ==
    RequestOf(i.endpoint, i.data.transaction_id, i.data.resource_id, i.raw, i.count,
              i.absent \cup K)

NoInput == [endpoint |-> "none", valid |-> FALSE, transaction_id |-> NoText,
            resource_id |-> NoText, amount |-> 0, raw |-> NoRaw,
            data |-> RequestData(NoText, NoText), count |-> Omitted,
            absent |-> AllFields]

\* the amounts the contending requests carry, and one the serializer rejects
RawAmounts == {RawAmount("str", FALSE, 1050, <<0, 0>>)}
RejectedAmounts == {RawAmount("int", FALSE, 0, <<>>)}

\* amounts in hundredths, as the serializer's DecimalField(decimal_places=2) holds them
Amounts == {to_internal_value(a) : a \in RawAmounts}

\* validated requests: every guarded combination, one request per unguarded endpoint
ValidInputs ==
    {Request(e, t, r, a) : e \in Guarded, t \in TxnIds, r \in Resources, a \in RawAmounts}
    \cup {Request(e, T1, R1, a) : e \in Unguarded, a \in RawAmounts}
    \cup {Request("sell_power", <<11, 32>> \o T1 \o <<9>>, <<8195>> \o R1, a) :
             a \in RawAmounts}

\* requests the serializer rejects (amount <= 0, or an id that is empty, blanks only,
\* or holds U+0000 or a surrogate): the fields are never read
InvalidInputs ==
    {Request(e, T1, R1, a) : e \in Endpoints, a \in RejectedAmounts}
    \cup {Request("sell_power", t, R1, a) :
             t \in {<<>>, <<32>>, <<11>>, <<28, 12288>>}, a \in RawAmounts}
    \cup {Request("pay_bill", T1, <<32, 9, 160>>, a) : a \in RawAmounts}
    \cup {Request("transfer_amount", <<84, 0, 49>>, R1, a) : a \in RawAmounts}
    \cup {Request("sell_power", T1, <<82, 56320, 49>>, a) : a \in RawAmounts}

Inputs == ValidInputs \cup InvalidInputs

\* a request to inquiry_sales_transactions as it arrives: meter_number and count
InquiryRequest(r, c) ==
    RequestOf("inquiry_sales_transactions", NoText, r, NoRaw, c,
              AllFields \ {"resource_id"})

\* a request to get_token_status: a GET, nothing is validated
StatusRequest == RequestOf("get_token_status", NoText, NoText, NoRaw, Omitted, AllFields)

\* counts: left out, integers, and the strings "2", "abc", "2.0", " 3 ", "2.5", "-1.",
\* "1_0", "+" with U+0663 (ARABIC-INDIC DIGIT THREE), "2." with U+001C, and ""
InquiryInputs ==
    {InquiryRequest(R1, c) :
        c \in {Omitted, <<"int", 0>>, <<"int", 2>>, <<"int", CountDefault>>, <<"int", -1>>,
               <<"str", <<50>>>>, <<"str", <<97, 98, 99>>>>, <<"str", <<50, 46, 48>>>>,
               <<"str", <<32, 51, 32>>>>, <<"str", <<50, 46, 53>>>>,
               <<"str", <<45, 49, 46>>>>, <<"str", <<49, 95, 48>>>>,
               <<"str", <<43, 1635>>>>, <<"str", <<50, 46, 28>>>>, <<"str", <<>>>>}}
    \cup {InquiryRequest(r, <<"int", 2>>) :
             r \in {<<>>, <<32>>, <<31>>, <<32>> \o R1 \o <<8232>>, <<82, 0, 49>>}}
    \cup {Without(InquiryRequest(R1, <<"int", 2>>), {"resource_id"})}

\* the views that read one key and take no lock
ReadViews ==
    {"change_payment_password", "get_customer_details", "get_sale_details",
     "get_arrear_payment_details", "inquiry_arrear_transactions", "get_customer_bills",
     "get_bill_details", "get_bill_transaction_details", "inquiry_bill_transactions"}

\* a request to one of the views that read one key
ViewRequest(e, r) ==
    RequestOf(e, NoText, r, NoRaw, Omitted, AllFields \ {"resource_id"})

\* a request to get_account_details: the view builds no serializer
AccountRequest ==
    RequestOf("get_account_details", NoText, NoText, NoRaw, Omitted, AllFields)

\* requests to the views that take no lock and move no money: with the key the view
\* reads and with a key the serializer refuses
ViewInputs ==
    {ViewRequest(e, R1) : e \in ReadViews}
    \cup {ViewRequest("get_customer_details", r) : r \in {<<32>>, <<82, 0, 49>>}}
    \cup {AccountRequest}

\* requests the serializer accepts that lack a key the view reads
IncompleteInputs ==
    {Without(Request("sell_power", T1, R1, a), {"transaction_id"}) : a \in RawAmounts}
    \cup {Without(Request("sell_power", T1, R1, a), {"phone"}) : a \in RawAmounts}
    \cup {Without(Request("sell_power", T1, R1, a), {"verify_code"}) : a \in RawAmounts}
    \cup {Without(Request("pay_bill", T1, R1, a), {"amount"}) : a \in RawAmounts}
    \cup {Without(Request("pay_bill", T1, R1, a), {"verify_code"}) : a \in RawAmounts}
    \cup {Without(Request("pay_arrear", T1, R1, a), {"transaction_id"}) : a \in RawAmounts}
    \cup {Without(Request("transfer_amount", T1, R1, a), {"resource_id"}) :
             a \in RawAmounts}
    \cup {Without(ViewRequest("get_bill_details", R1), {"resource_id"})}

\* the views that validate nothing
Unvalidated == {"get_account_details", "get_token_status"}

\* is_valid() with the amount field left unchecked
is_valid_ignoring_amount(i) ==
    /\ "transaction_id" \in i.absent \/ is_valid_text(i.data.transaction_id)
    /\ "resource_id" \in i.absent \/ is_valid_text(i.data.resource_id)
    /\ is_valid_count(i.count)

\* serializer.is_valid(): every key the request carries is validated
is_valid(i) ==
    /\ "amount" \in i.absent \/ is_valid_amount(i.raw)
    /\ "transaction_id" \in i.absent \/ is_valid_text(i.data.transaction_id)
    /\ "resource_id" \in i.absent \/ is_valid_text(i.data.resource_id)
    /\ is_valid_count(i.count)

\* the keys a view reads from validated_data before acquire_locks (views.py 318-320,
\* 819-823): a missing one raises KeyError inside the try block
ReadAtEntry(e) ==
    IF e = "sell_power" THEN {"transaction_id", "resource_id", "amount"}
    ELSE IF e = "pay_bill" THEN AllFields
    ELSE {}

\* the keys a view reads from validated_data once SmartPayService() is built, for the
\* arguments of the service method
ReadAtCall(e) ==
    IF e = "sell_power" THEN {"phone"}
    ELSE IF e = "pay_arrear" THEN AllFields
    ELSE IF e = "transfer_amount" THEN {"transaction_id", "resource_id", "amount"}
    ELSE IF e \in ReadViews \cup {"inquiry_sales_transactions"} THEN {"resource_id"}
    ELSE {}


(* ---------------------------------------------------------------------- *)
(* Values as the views hold them: <<python type, value>>.                  *)
(* ---------------------------------------------------------------------- *)
Dec(c) == <<"Decimal", c>>
Flt(c) == <<"float", c>>
Str(s) == <<"str", s>>
IntV(n) == <<"int", n>>

\* serializer.validated_data: DecimalField yields a Decimal, CharField a str,
\* IntegerField an int; channel and count have defaults, a key the request does not
\* carry is missing
validated_data(i) ==
    LET d == [transaction_id |-> Str(i.transaction_id),
              resource_id |-> Str(i.resource_id),
              amount |-> Dec(i.amount), phone |-> Str("phone"),
              verify_code |-> Str("verify_code"), channel |-> Str("04"),
              count |-> IntV(validated_count(i.count))] IN
    [k \in (DOMAIN d) \ i.absent |-> d[k]]

\* sanitize_for_json on a dict of scalars: Decimal -> float, the rest unchanged
sanitize_for_json(d) ==
    [k \in DOMAIN d |-> IF d[k][1] = "Decimal" THEN Flt(d[k][2]) ELSE d[k]]

\* JSONField (no encoder configured) serializes with json.dumps: a Decimal raises TypeError
JsonSerializable(d) == \A k \in DOMAIN d : d[k][1] # "Decimal"

\* n / d rounded to the nearest integer, ties to even (n >= 0, d > 0)
RoundHalfEven(n, d) ==
    LET q == n \div d
        r == n % d IN
    IF 2 * r > d \/ (2 * r = d /\ q % 2 = 1) THEN q + 1 ELSE q

\* float(amount): the double nearest to the Decimal.  The integer part is exact; the
\* fraction is rounded to a multiple of 2^-FractionBits.
ToFloat(c) ==
    [whole |-> c \div 100,
     frac |-> RoundHalfEven((c % 100) * 2^FractionBits, 100)]

\* "{:.2f}".format(x): the decimal with two fractional digits nearest to the double,
\* as <<integer part, first digit, second digit>>
Format2f(x) ==
    LET h == x.whole * 100 + RoundHalfEven(x.frac * 100, 2^FractionBits) IN
    <<h \div 100, (h % 100) \div 10, h % 10>>

\* "{:.2f}" taken as cutting the digits off after the second
FormatAmountTruncating(c) ==
    LET x == ToFloat(c)
        h == x.whole * 100 + (x.frac * 100) \div 2^FractionBits IN
    <<h \div 100, (h % 100) \div 10, h % 10>>

\* "{:.2f}".format(float(amount)) of an amount held in hundredths
FormatAmount(c) == Format2f(ToFloat(c))

(* ---------------------------------------------------------------------- *)
(* The lock store (django cache): key -> entry, an entry is live until exp. *)
(* ---------------------------------------------------------------------- *)
TxnKey(i) == <<"txn", i.transaction_id, NoText, <<0, 0, 0>>, "">>
\* the resource key built without the operation type
ResourceKeyWithoutType(i) ==
    <<"resource", NoText, i.resource_id, FormatAmount(i.amount), "">>

\* f"resource_{resource_id}_{amount}_{transaction_type}"
ResourceKey(i) ==
    <<"resource", NoText, i.resource_id, FormatAmount(i.amount), i.endpoint>>

GuardedInputs == {i \in ValidInputs : i.endpoint \in Guarded}

\* the forms an amount arrives in: integers, floats of one and two fractional digits,
\* decimal strings, values below 1, and data the serializer rejects
AmountForms ==
    { RawAmount("int", FALSE, 13567, <<>>),
      RawAmount("float", FALSE, 2000, <<5>>),
      RawAmount("float", FALSE, 3544, <<4, 4>>),
      RawAmount("str", FALSE, 1000, <<9, 9>>),
      RawAmount("float", FALSE, 0, <<0, 7>>),
      RawAmount("str", FALSE, 0, <<2, 9>>),
      RawAmount("int", TRUE, 100, <<>>),
      RawAmount("str", FALSE, 10, <<9, 9, 9>>) }

AmountInputs ==
    {Request(e, t, R1, a) : e \in Endpoints, t \in TxnIds, a \in AmountForms}
    \cup IncompleteInputs

Keys ==
    LET G == {i \in ValidInputs \cup AmountInputs :
                 /\ i.valid /\ i.endpoint \in Guarded
                 /\ ReadAtEntry(i.endpoint) \cap i.absent = {}} IN
    {TxnKey(i) : i \in G} \cup {ResourceKey(i) : i \in G}

Absent == [exp |-> 0, owner |-> "none"]

\* every key taken for present
LiveAlways(c, k, t) == TRUE

\* is the key present at time t
Live(c, k, t) == c[k].exp > t

\* cache.add without a timeout: the entry stays until it is deleted
cache_add_no_timeout(c, k, t, p) ==
    IF Live(c, k, t) THEN c ELSE [c EXCEPT ![k] = [exp |-> 1000000, owner |-> p]]

\* cache.add(key, 'locked', 30): creates the entry iff the key is absent or expired
cache_add(c, k, t, p) ==
    IF Live(c, k, t) THEN c ELSE [c EXCEPT ![k] = [exp |-> t + LockTTL, owner |-> p]]

\* cache.delete(key): removes the entry whoever created it
cache_delete(c, k) == [c EXCEPT ![k] = Absent]

\* a call that deletes only the first of its keys that is still present
release_locks_one_per_call(c, lock_keys) ==
    LET present == {n \in 1..Len(lock_keys) : c[lock_keys[n]] # Absent} IN
    IF present = {} THEN c
    ELSE cache_delete(c, lock_keys[CHOOSE n \in present : \A m \in present : n <= m])

\* release_locks(lock_keys): nothing for None or an empty list, else cache.delete of
\* each key in turn
release_locks(c, lock_keys) ==
    IF lock_keys = <<>> THEN c
    ELSE [k \in DOMAIN c |->
             IF \E n \in 1..Len(lock_keys) : lock_keys[n] = k THEN Absent ELSE c[k]]

\* entries whose time-to-live has elapsed are gone
Expire(c, t) == [k \in DOMAIN c |-> IF c[k].exp > t THEN c[k] ELSE Absent]

(* ---------------------------------------------------------------------- *)
(* State.                                                                  *)
(* ---------------------------------------------------------------------- *)
VARIABLES
    now,        \* the clock (timezone.now(), time.time())
    cache,      \* the lock store
    tokens,     \* table smartpay_token: sequence of rows, a token is known by its row number
    apilog,     \* table api_logs: sequence of audit records
    worker      \* per request handler: its position and its local variables

vars == <<now, cache, tokens, apilog, worker>>

NoResp == [status |-> 0, body |-> ""]
NoData == [http |-> 0, state |-> 0]
\* no business request of the handler is on the wire
NoWire == [params |-> <<>>, seed |-> <<>>, token |-> 0, sign |-> <<>>]

\* first_wire keeps the business request the gateway answered 'token expired' to, from
\* the refresh until the request sent again is answered
IdleWorker ==
    [pc |-> "idle", req |-> NoInput, lock_keys |-> <<>>, error_message |-> "",
     transaction_start |-> 0, service_start |-> 0, current_token |-> 0,
     retry |-> TRUE, tok_ret |-> "", call_start |-> 0, new_end |-> 0,
     data |-> NoData, resp |-> NoResp, sent_tok |-> 0, sent_biz |-> 0, solo |-> FALSE,
     called_with |-> <<>>, wire |-> NoWire, first_wire |-> NoWire, sign_type |-> "MD5"]

\* token tables a deployment can start from: none yet, one usable token,
\* one active token that ends within the five-minute buffer
InitialTokens ==
    { <<>>,
      <<[end_time |-> 100000, is_active |-> TRUE]>>,
      <<[end_time |-> 200, is_active |-> TRUE]>> }

Init ==
    /\ now = 0
    /\ cache = [k \in Keys |-> Absent]
    /\ tokens \in InitialTokens
    /\ apilog = <<>>
    /\ worker = [p \in Procs |-> IdleWorker]

(* ---------------------------------------------------------------------- *)
(* Time.                                                                   *)
(* ---------------------------------------------------------------------- *)
\* the deadline of the gateway call a worker is waiting on
Deadline(w) ==
    IF w.pc = "tok_wait" THEN w.call_start + TokenTimeout
    ELSE IF w.pc = "mr_wait" THEN w.call_start + RequestTimeout
    ELSE MaxTime + TickSize

\* positions at which a handler lets time pass: no request yet, the response sent,
\* blocked in requests.post, or dead
WaitingPcs == {"idle", "done", "tok_wait", "mr_wait", "crashed"}

\* A cache or database access takes no time on the scale of the gateway timeouts and
\* the lock time-to-live: the clock advances only between such accesses.
\* requests.post raises Timeout at the deadline: no call is still waiting after it.
Tick ==
    /\ now + TickSize <= MaxTime
    /\ \A p \in Procs : worker[p].pc \in WaitingPcs
    /\ \A p \in Procs : now + TickSize <= Deadline(worker[p])
    /\ now' = now + TickSize
    /\ cache' = Expire(cache, now + TickSize)
    /\ UNCHANGED <<tokens, apilog, worker>>


\* the amount argument of the view's call of the service method: transfer_amount
\* passes validated_data['amount'] as it is, the other views pass the formatted string
HandedAmount(i) ==
    IF i.endpoint = "transfer_amount" THEN Dec(i.amount) ELSE Str(FormatAmount(i.amount))

\* the name under which the service method of a view that reads one key sends it
\* (smartpay_service.py 205-207, 218-220, 234-236, 256-272, 285-291)
ViewParam(e) ==
    IF e = "change_payment_password" THEN "password"
    ELSE IF e = "get_customer_details" THEN "rst_value"
    ELSE IF e = "get_sale_details" THEN "code"
    ELSE IF e \in {"get_arrear_payment_details", "get_bill_transaction_details"}
    THEN "trans_code"
    ELSE "rst_code"

(* ---------------------------------------------------------------------- *)
(* Request signing.  A digest is the term naming the function and its      *)
(* argument.  A parameter mapping is the sequence of its <<name, value>>   *)
(* pairs in insertion order, names unique; a value is <<python type,       *)
(* value>>, and the values the cleaning step drops are tagged "empty".     *)
(* ---------------------------------------------------------------------- *)
md5(x) == <<"md5", x>>
hmac_sha256(k, x) == <<"hmac_sha256", k, x>>
upper(x) == <<"upper", x>>
Empty == <<"empty", "">>
NoneValue == <<"empty", "None">>

SignTypes == {"MD5", "HMAC-SHA256"}

\* the attributes __init__ copies from settings.SMARTPAY_CONFIG, per configured sign type
Self(m) == [user |-> "API_USER", password |-> "API_PASSWORD", sign_type |-> m]

\* token.token of a stored row: every issued token is a value of its own
TokenValue(tok) == IF tok = 0 THEN Empty ELSE <<"token", tok>>

\* _generate_seed: MD5 of the clock reading
generate_seed(t) == upper(md5(t))

\* the instants of time.time() within the current tick of the clock
Readings == {<<now, f>> : f \in 0..(SubTicks - 1)}

\* time.time() as a handler reads it: any instant of the current tick, but not the one
\* its request awaiting the retry was sent at.  requests.post blocks for the round
\* trip, which takes longer than the clock's resolution, so the handler reads a later
\* time after the exchange; two handlers may read the same instant or different ones.
time_time(w) == {r \in Readings : generate_seed(r) # w.first_wire.seed}

\* _calculate_key
calculate_key(self, seed, token) ==
    LET pass_hash == hmac_sha256(self.password, self.password)
        value == md5(<<self.user, pass_hash, TokenValue(token)>>) IN
    md5(<<value, seed>>)

\* every parameter name the service methods sign (lines 108-113, 157-163, 201-291), in
\* python's string order
KeyOrder ==
    <<"amt", "calc_mode", "channel", "code", "count", "hours", "password", "phone", "rst_code",
      "rst_value", "seed", "trans_code", "trans_id", "user", "verify_code", "version">>

\* the pairs left in insertion order
sorted_params_as_inserted(s) == s

\* sorted(clean_params.items(), key=lambda x: x[0])
sorted_params(s) ==
    LET present == {s[k][1] : k \in 1..Len(s)}
        keys == SelectSeq(KeyOrder, LAMBDA x : x \in present) IN
    [n \in 1..Len(keys) |-> s[CHOOSE k \in 1..Len(s) : s[k][1] = keys[n]]]

\* v not in [None, ""]
NotEmpty(kv) == kv[2][1] # "empty"

\* str(v) as urlencode applies it: a str is its own text, any other value is the text
\* python prints for it
str_of(v) == IF v[1] = "str" THEN v[2] ELSE <<"str", v>>

\* urlencode(sorted_params): name=text for each pair, in the order given (quote_plus
\* rewrites the characters of a text one by one, so distinct texts stay distinct)
urlencode(s) == [n \in 1..Len(s) |-> <<s[n][1], "=", str_of(s[n][2])>>]

\* an unsupported sign type signed as MD5
generate_signature_default_md5(self, params, seed, token) ==
    LET clean_params == SelectSeq(params, NotEmpty)
        stringA == urlencode(sorted_params(clean_params))
        key == calculate_key(self, seed, token)
        stringSignTemp == <<stringA, "&key=", key>> IN
    IF self.sign_type = "HMAC-SHA256" THEN upper(hmac_sha256(key, stringSignTemp))
    ELSE upper(md5(stringSignTemp))

\* _generate_signature: clean, sort by name, url-encode, append the key, digest
generate_signature(self, params, seed, token) ==
    LET clean_params == SelectSeq(params, NotEmpty)
        stringA == urlencode(sorted_params(clean_params))
        key == calculate_key(self, seed, token)
        stringSignTemp == <<stringA, "&key=", key>> IN
    IF self.sign_type = "MD5" THEN upper(md5(stringSignTemp))
    ELSE IF self.sign_type = "HMAC-SHA256" THEN upper(hmac_sha256(key, stringSignTemp))
    ELSE <<"ValueError">>

\* the params the service method of the view builds (lines 201-291); sell_power
\* reads verify_code with .get(..., ''), and '' is sent as 'DONOTVERIFYDATA'
MethodParams(i) ==
    IF i.endpoint = "get_account_details" THEN <<>>
    ELSE IF i.endpoint \in ReadViews
    THEN <<<<ViewParam(i.endpoint), Str(i.resource_id)>>>>
    ELSE IF i.endpoint = "inquiry_sales_transactions"
    THEN <<<<"rst_code", Str(i.resource_id)>>, <<"count", IntV(validated_count(i.count))>>>>
    ELSE IF i.endpoint = "transfer_amount"
    THEN <<<<"trans_id", Str(i.transaction_id)>>, <<"rst_value", Str(i.resource_id)>>,
           <<"amt", HandedAmount(i)>>>>
    ELSE <<<<"trans_id", Str(i.transaction_id)>>, <<"rst_code", Str(i.resource_id)>>>>
         \o (IF i.endpoint = "sell_power" THEN <<<<"calc_mode", Str("M")>>>> ELSE <<>>)
         \o <<<<"amt", HandedAmount(i)>>, <<"channel", Str("04")>>,
              <<"phone", Str("phone")>>,
              <<"verify_code", IF "verify_code" \in i.absent THEN Str("DONOTVERIFYDATA")
                               ELSE Str("verify_code")>>>>

\* base_params before 'sign' is added (lines 157-163)
BaseParams(i, seed) ==
    <<<<"version", IntV(0)>>, <<"user", Str("API_USER")>>, <<"seed", seed>>>>
    \o MethodParams(i)

\* _get_new_token's params before 'sign' is added (lines 108-113)
TokenParams(seed) ==
    <<<<"version", IntV(0)>>, <<"user", Str("API_USER")>>, <<"seed", seed>>,
      <<"hours", <<"int", "TOKEN_EXPIRY_HOURS">>>>>>

\* _generate_signature raises (ValueError: unsupported sign type)
SignFails(w, params, seed, token) ==
    generate_signature(Self(w.sign_type), params, seed, token) = <<"ValueError">>

\* the request as signed and posted, with its signature under either sign type
Signed(params, seed, token) ==
    [params |-> params, seed |-> seed, token |-> token,
     sign |-> [m \in SignTypes |-> generate_signature(Self(m), params, seed, token)]]

(* ---------------------------------------------------------------------- *)
(* Helpers over a worker's record.                                         *)
(* ---------------------------------------------------------------------- *)
\* positions inside _get_new_token
TokenPcs == {"tok_wait", "tok_create"}

\* positions between a successful acquire_locks and the end of the service call
ServicePcs == {"svc_init", "tok_wait", "tok_create", "mr_enter", "mr_send", "mr_wait"}

\* the response goes out and the handler's frame is gone: what stays is what the
\* caller and the stores can still see of it
Finish(w, r) ==
    [IdleWorker EXCEPT !.pc = "done", !.req = w.req, !.resp = r,
                       !.lock_keys = w.lock_keys, !.error_message = w.error_message,
                       !.data = w.data,
                       !.sent_tok = w.sent_tok, !.sent_biz = w.sent_biz,
                       !.called_with = w.called_with, !.sign_type = w.sign_type]

\* an exception leaving the service or the view body: sell_power and pay_bill
\* catch it in their except block, the other views answer 500
Raise(w) ==
    IF w.req.endpoint \in Guarded
    THEN [w EXCEPT !.pc = "except", !.wire = NoWire,
               !.first_wire = NoWire]
    ELSE Finish(w, [status |-> 500, body |-> "error"])

\* APILog.objects.create: the row is stored iff both JSON fields serialize
APILogCreate(log, endpoint, request_data, response_data, status_code, duration, p) ==
    IF JsonSerializable(request_data) /\ JsonSerializable(response_data)
    THEN Append(log, [endpoint |-> endpoint, status_code |-> status_code,
                      duration |-> duration, by |-> p])
    ELSE log

\* _get_new_token up to requests.post: the token request is on the wire.
\* solo records whether any other worker is inside _get_new_token meanwhile.
SendTokenRequest(p, w, ret) ==
    IF \E r \in time_time(w) :
          SignFails(w, TokenParams(generate_seed(r)), generate_seed(r), 0)
    THEN [worker EXCEPT ![p] = Raise(w)]
    ELSE
    [q \in Procs |->
        IF q = p
        THEN [w EXCEPT !.pc = "tok_wait", !.tok_ret = ret, !.call_start = now,
                       !.sent_tok = @ + 1, !.wire = NoWire,
                       !.solo = \A r \in Procs \ {p} : worker[r].pc \notin TokenPcs]
        ELSE IF worker[q].pc \in TokenPcs
             THEN [worker[q] EXCEPT !.solo = FALSE]
             ELSE worker[q]]

(* ---------------------------------------------------------------------- *)
(* The views up to the first lock: validation, then acquire_locks' first   *)
(* cache.add.                                                              *)
(* ---------------------------------------------------------------------- *)
request_received(p, I) ==
    /\ worker[p].pc = "idle"
    /\ \E i \in I :
        LET w == [worker[p] EXCEPT !.req = i] IN
        IF i.endpoint \notin Unvalidated /\ ~is_valid(i)
        THEN \* serializer.is_valid() fails: only sell_power writes an audit record
            /\ apilog' = IF i.endpoint = "sell_power"
                         THEN APILogCreate(apilog, "sell_power_validation_error",
                                           [amount |-> <<i.raw.form, i.raw>>],
                                           [errors |-> Str("errors")], 400, 0, p)
                         ELSE apilog
            /\ worker' = [worker EXCEPT ![p] =
                            Finish(w, [status |-> 400, body |-> "errors"])]
            /\ UNCHANGED <<now, cache, tokens>>
        ELSE IF ReadAtEntry(i.endpoint) \cap i.absent # {}
        THEN \* transaction_start = now; lock_keys = None; KeyError before acquire_locks
            /\ worker' = [worker EXCEPT ![p] = Raise([w EXCEPT !.transaction_start = now])]
            /\ UNCHANGED <<now, cache, tokens, apilog>>
        ELSE IF i.endpoint \in Guarded
        THEN \* transaction_start = now; lock_keys = None; cache.add(txn_lock, 'locked', 30)
            /\ cache' = cache_add(cache, TxnKey(i), now, p)
            /\ worker' = [worker EXCEPT ![p] =
                            IF Live(cache, TxnKey(i), now)
                            THEN [w EXCEPT !.pc = "log_lock_fail",
                                           !.transaction_start = now,
                                           !.error_message = "Transaction already being processed"]
                            ELSE [w EXCEPT !.pc = "lock_res", !.transaction_start = now]]
            /\ UNCHANGED <<now, tokens, apilog>>
        ELSE \* the views that take no lock: straight to SmartPayService()
            /\ worker' = [worker EXCEPT ![p] = [w EXCEPT !.pc = "svc_init"]]
            /\ UNCHANGED <<now, cache, tokens, apilog>>

\* acquire_locks: cache.add(resource_lock, 'locked', 30)
acquire_resource_lock(p) ==
    LET w == worker[p]
        k == ResourceKey(w.req) IN
    /\ w.pc = "lock_res"
    /\ cache' = cache_add(cache, k, now, p)
    /\ worker' = [worker EXCEPT ![p] =
                    IF Live(cache, k, now)
                    THEN [w EXCEPT !.pc = "lock_cleanup"]
                    ELSE [w EXCEPT !.pc = "svc_init",
                                   !.lock_keys = <<TxnKey(w.req), k>>]]
    /\ UNCHANGED <<now, tokens, apilog>>

\* the cleanup deleting the resource key it was refused on
acquire_cleanup_resource(p) ==
    LET w == worker[p] IN
    /\ w.pc = "lock_cleanup"
    /\ cache' = cache_delete(cache, ResourceKey(w.req))
    /\ worker' = [worker EXCEPT ![p] =
                    [w EXCEPT !.pc = "log_lock_fail",
                              !.error_message =
                                  IF w.req.endpoint = "sell_power"
                                  THEN "Meter transaction in progress"
                                  ELSE "Bill transaction in progress"]]
    /\ UNCHANGED <<now, tokens, apilog>>

\* acquire_locks: cache.delete(txn_lock) after the resource lock was refused
acquire_cleanup(p) ==
    LET w == worker[p] IN
    /\ w.pc = "lock_cleanup"
    /\ cache' = cache_delete(cache, TxnKey(w.req))
    /\ worker' = [worker EXCEPT ![p] =
                    [w EXCEPT !.pc = "log_lock_fail",
                              !.error_message =
                                  IF w.req.endpoint = "sell_power"
                                  THEN "Meter transaction in progress"
                                  ELSE "Bill transaction in progress"]]
    /\ UNCHANGED <<now, tokens, apilog>>

\* the views' "if error_message:" branch: audit record, then 423
log_lock_failure(p) ==
    LET w == worker[p]
        request_data == IF w.req.endpoint = "sell_power"
                        THEN sanitize_for_json(validated_data(w.req))
                        ELSE validated_data(w.req)
        response_data == [error |-> Str(w.error_message)]
        duration == IF w.req.endpoint = "sell_power" THEN now - w.transaction_start ELSE 0
        stored == JsonSerializable(request_data) /\ JsonSerializable(response_data) IN
    /\ w.pc = "log_lock_fail"
    /\ apilog' = APILogCreate(apilog, w.req.endpoint, request_data, response_data,
                              423, duration, p)
    /\ worker' = [worker EXCEPT ![p] =
                    IF stored
                    THEN [w EXCEPT !.pc = "finally",
                                   !.resp = [status |-> 423, body |-> w.error_message]]
                    ELSE Raise(w)]
    /\ UNCHANGED <<now, cache, tokens>>


(* ---------------------------------------------------------------------- *)
(* Session token manager.                                                  *)
(* ---------------------------------------------------------------------- *)
\* end_time values the gateway's get_verify_code answers carry
IssuedEndTimes == {20, 100000}

\* the scan comparing end_time with now itself
FirstUsableNoBuffer(toks, t) ==
    LET ok == {i \in 1..Len(toks) : toks[i].is_active /\ toks[i].end_time > t} IN
    IF ok = {} THEN 0 ELSE CHOOSE i \in ok : \A j \in ok : i <= j

\* _get_active_token's scan: the first active row with end_time > now + 5 minutes, 0 if none
FirstUsable(toks, t) ==
    LET ok == {i \in 1..Len(toks) :
                  toks[i].is_active /\ toks[i].end_time > t + BufferSeconds} IN
    IF ok = {} THEN 0 ELSE CHOOSE i \in ok : \A j \in ok : i <= j

\* the update run over filter(is_active=False): no row changes
DeactivateInactive(toks) == toks

\* SmartPayToken.objects.filter(is_active=True).update(is_active=False)
DeactivateAll(toks) == [i \in 1..Len(toks) |-> [toks[i] EXCEPT !.is_active = FALSE]]

\* the new token written over the stored rows instead of added to them
CreateTokenReplacing(toks, end_time) == <<[end_time |-> end_time, is_active |-> TRUE]>>

\* SmartPayToken.objects.create(..., is_active=True)
CreateToken(toks, end_time) == Append(toks, [end_time |-> end_time, is_active |-> TRUE])

\* the selection's five-minute buffer applied to the expiry check as well
is_token_expired_buffered(toks, tok, t) == toks[tok].end_time <= t + BufferSeconds

\* _is_token_expired
is_token_expired(toks, tok, t) == toks[tok].end_time <= t

\* where the view goes once SmartPayService() is built: get_token_status calls
\* service.get_token(), every other view a method that enters _make_request, unless
\* validated_data lacks a key of the method's arguments (KeyError)
AfterInit(w) ==
    IF ReadAtCall(w.req.endpoint) \cap w.req.absent # {} THEN Raise(w)
    ELSE [w EXCEPT !.pc = IF w.req.endpoint = "get_token_status" THEN "gt_scan"
                          ELSE "mr_enter"]

\* SmartPayService(): __init__ runs _get_active_token
service_init(p) ==
    LET w == [worker[p] EXCEPT
                 !.service_start = IF @ = 0 /\ worker[p].req.endpoint = "pay_bill"
                                   THEN now ELSE @]
        tok == FirstUsable(tokens, now) IN
    /\ w.pc = "svc_init"
    /\ worker' = IF tok # 0
                 THEN [worker EXCEPT ![p] = AfterInit([w EXCEPT !.current_token = tok])]
                 ELSE SendTokenRequest(p, w, "init")
    /\ UNCHANGED <<now, cache, tokens, apilog>>

\* rows the table will hold once every pending create has run
RowsAhead == Len(tokens) + Cardinality({q \in Procs : worker[q].pc = "tok_create"})

\* _get_new_token: the answer to get_verify_code, up to the deactivation of the old rows
token_response(p, E) ==
    LET w == worker[p] IN
    /\ w.pc = "tok_wait"
    /\ \/ \* 200, state 0, all fields well formed
          \E e \in E :
            /\ RowsAhead < MaxTokens
            /\ tokens' = DeactivateAll(tokens)
            /\ worker' = [worker EXCEPT ![p] = [w EXCEPT !.pc = "tok_create",
                                                         !.new_end = e]]
       \/ \* 200, state 0, but tokens/seed/start_time/end_time missing or unparsable:
          \* the old rows are already deactivated when the KeyError / AttributeError comes
          /\ tokens' = DeactivateAll(tokens)
          /\ worker' = [worker EXCEPT ![p] = Raise(w)]
       \/ \* state # 0, a status other than 200, a transport error or an undecodable body
          /\ tokens' = tokens
          /\ worker' = [worker EXCEPT ![p] = Raise(w)]
       \/ \* requests' timeout=20
          /\ now >= w.call_start + TokenTimeout
          /\ tokens' = tokens
          /\ worker' = [worker EXCEPT ![p] = Raise(w)]
    /\ UNCHANGED <<now, cache, apilog>>

\* _get_new_token: the new row, and back to the caller
token_create(p) ==
    LET w == worker[p] IN
    /\ w.pc = "tok_create"
    /\ tokens' = CreateToken(tokens, w.new_end)
    /\ worker' = [worker EXCEPT ![p] =
                    IF w.tok_ret = "get_token"
                    THEN Finish(w, [status |-> 200, body |-> "token"])
                    ELSE IF w.tok_ret = "init"
                    THEN AfterInit([w EXCEPT !.current_token = Len(tokens) + 1,
                                             !.new_end = 0])
                    ELSE [w EXCEPT !.pc = IF w.tok_ret = "entry" THEN "mr_send"
                                          ELSE "mr_enter",
                                   !.current_token = Len(tokens) + 1,
                                   !.new_end = 0]]
    /\ UNCHANGED <<now, cache, apilog>>

\* get_token_status: the request arrives, the view builds the service
status_received(p) ==
    /\ worker[p].pc = "idle"
    /\ worker' = [worker EXCEPT ![p] =
                     [worker[p] EXCEPT !.req = StatusRequest, !.pc = "svc_init"]]
    /\ UNCHANGED <<now, cache, tokens, apilog>>

\* service.get_token(): _get_active_token once more, after the constructor's; the view
\* answers with the row it gets
get_token(p) ==
    LET w == worker[p]
        tok == FirstUsable(tokens, now) IN
    /\ w.pc = "gt_scan"
    /\ worker' = IF tok # 0
                 THEN [worker EXCEPT ![p] = Finish(w, [status |-> 200, body |-> "token"])]
                 ELSE SendTokenRequest(p, w, "get_token")
    /\ UNCHANGED <<now, cache, tokens, apilog>>

(* ---------------------------------------------------------------------- *)
(* Gateway client: _make_request.                                          *)
(* ---------------------------------------------------------------------- *)
\* what the gateway answers to a business action: HTTP status and 'state'
BusinessAnswers == [http : {200}, state : {0, TokenExpiredState, -1}]
                   \cup [http : {500}, state : {TokenExpiredState}]

\* lines 156-175: seed, signature, requests.post(json=base_params).  transfer_amount
\* hands a Decimal 'amt' to json: stdlib json raises TypeError before anything is
\* sent, simplejson (which requests prefers when installed) encodes it.
SendWithSeed(w, seed) ==
    UNION { IF SignFails(w, base_params, seed, w.current_token)
            THEN {Raise(w)}
            ELSE {[w EXCEPT !.pc = "mr_wait", !.call_start = now, !.sent_biz = @ + 1,
                            !.wire = Signed(base_params, seed, w.current_token)]}
                 \cup (IF w.req.endpoint = "transfer_amount" THEN {Raise(w)} ELSE {}) :
            base_params \in {BaseParams(w.req, seed)} }

\* the request sent again with the seed of the first one
SendBusinessKeepingSeed(w) ==
    UNION { SendWithSeed(w, seed) :
            seed \in IF w.first_wire.token # 0 THEN {w.first_wire.seed}
                      ELSE {generate_seed(r) : r \in time_time(w)} }

\* line 156: seed = self._generate_seed(), on every entry into _make_request
SendBusiness(w) ==
    UNION { SendWithSeed(w, seed) : seed \in {generate_seed(r) : r \in time_time(w)} }

\* the view's call of the service method (the first entry into _make_request; the
\* recursive entry comes with a request already sent); then
\* line 153: refresh first if the held token's end_time has passed
make_request_enter(p) ==
    LET w == [worker[p] EXCEPT
                 !.called_with = IF worker[p].sent_biz = 0
                                      /\ worker[p].req.endpoint \in Endpoints
                                 THEN Append(@, HandedAmount(worker[p].req)) ELSE @] IN
    /\ w.pc = "mr_enter"
    /\ IF w.current_token = 0 \/ is_token_expired(tokens, w.current_token, now)
       THEN worker' = SendTokenRequest(p, w, "entry")
       ELSE \E w2 \in SendBusiness(w) : worker' = [worker EXCEPT ![p] = w2]
    /\ UNCHANGED <<now, cache, tokens, apilog>>

\* after line 154's refresh: the business request itself
make_request_send(p) ==
    LET w == worker[p] IN
    /\ w.pc = "mr_send"
    /\ \E w2 \in SendBusiness(w) : worker' = [worker EXCEPT ![p] = w2]
    /\ UNCHANGED <<now, cache, tokens, apilog>>

\* a payload handed back by the service: the view goes on to log it (guarded) or returns it
Returned(w, d) ==
    IF w.req.endpoint \in Guarded
    THEN [w EXCEPT !.pc = "log_ok", !.data = d, !.wire = NoWire,
                   !.first_wire = NoWire]
    ELSE IF w.req.endpoint = "inquiry_sales_transactions"
    THEN [w EXCEPT !.pc = "inq_slice", !.data = d, !.wire = NoWire,
                   !.first_wire = NoWire]
    ELSE Finish([w EXCEPT !.data = d], [status |-> 200, body |-> "result"])

\* the recursion entered with retry_on_token_expiry left True
gateway_response_retry_again(p, A) ==
    LET w == worker[p] IN
    /\ w.pc = "mr_wait"
    /\ \/ \E d \in A :
            IF d.http = 200
            THEN IF d.state = TokenExpiredState
                 THEN worker' = SendTokenRequest(p, [w EXCEPT !.data = d], "expiry")
                 ELSE worker' = [worker EXCEPT ![p] = Returned(w, d)]
            ELSE worker' = [worker EXCEPT ![p] = Raise(w)]
       \/ worker' = [worker EXCEPT ![p] = Raise(w)]
    /\ UNCHANGED <<now, cache, tokens, apilog>>

\* the state of the body looked at before the HTTP status
gateway_response_state_first(p, A) ==
    LET w == worker[p] IN
    /\ w.pc = "mr_wait"
    /\ \/ \E d \in A :
            IF w.retry /\ d.state = TokenExpiredState
            THEN worker' = SendTokenRequest(p, [w EXCEPT !.retry = FALSE, !.data = d,
                                                    !.first_wire = w.wire],
                                                 "expiry")
            ELSE IF d.http = 200
                 THEN worker' = [worker EXCEPT ![p] = Returned(w, d)]
                 ELSE worker' = [worker EXCEPT ![p] = Raise([w EXCEPT !.data = d])]
       \/ worker' = [worker EXCEPT ![p] = Raise(w)]
    /\ UNCHANGED <<now, cache, tokens, apilog>>

\* lines 177-184: the answer to the business request; data = response.json() is read
\* whatever the status, and data holds the body read last
gateway_response(p, A) ==
    LET w == worker[p] IN
    /\ w.pc = "mr_wait"
    /\ \/ \E d \in A :
            IF d.http = 200
            THEN IF w.retry /\ d.state = TokenExpiredState
                 THEN worker' = SendTokenRequest(p, [w EXCEPT !.retry = FALSE, !.data = d,
                                                    !.first_wire = w.wire],
                                                 "expiry")
                 ELSE worker' = [worker EXCEPT ![p] = Returned(w, d)]
            ELSE worker' = [worker EXCEPT ![p] = Raise([w EXCEPT !.data = d])]
       \/ \* transport error or undecodable body
          worker' = [worker EXCEPT ![p] = Raise(w)]
       \/ \* requests' timeout=30
          /\ now >= w.call_start + RequestTimeout
          /\ worker' = [worker EXCEPT ![p] = Raise(w)]
    /\ UNCHANGED <<now, cache, tokens, apilog>>


(* ---------------------------------------------------------------------- *)
(* The guarded views after the service call.                               *)
(* ---------------------------------------------------------------------- *)
\* the success record and the 200 response
log_success(p) ==
    LET w == worker[p]
        result == [state |-> IntV(w.data.state)]
        sell == w.req.endpoint = "sell_power"
        request_data == IF sell
                        THEN sanitize_for_json(validated_data(w.req))
                        ELSE [transaction_id |-> Str(w.req.transaction_id),
                              bill_code |-> Str(w.req.resource_id),
                              amount |-> Str(FormatAmount(w.req.amount)),
                              phone |-> Str("phone"),
                              verify_code |-> Str("verify_code")]
        response_data == IF sell THEN sanitize_for_json(result) ELSE result
        duration == IF sell THEN now - w.transaction_start ELSE now - w.service_start
        stored == JsonSerializable(request_data) /\ JsonSerializable(response_data) IN
    /\ w.pc = "log_ok"
    /\ apilog' = APILogCreate(apilog, IF sell THEN "sell_power" ELSE "pay_bill_success",
                              request_data, response_data, 200, duration, p)
    /\ worker' = [worker EXCEPT ![p] =
                    IF stored
                    THEN [w EXCEPT !.pc = "finally",
                                   !.resp = [status |-> 200, body |-> "result"]]
                    ELSE Raise(w)]
    /\ UNCHANGED <<now, cache, tokens>>

\* the except block: the error record and the 500 response.  When the record cannot be
\* stored the TypeError leaves the view (after finally) and the framework answers 500.
handle_exception(p) ==
    LET w == worker[p]
        request_data == IF w.req.endpoint = "sell_power"
                        THEN sanitize_for_json(validated_data(w.req))
                        ELSE validated_data(w.req)
        response_data == [error |-> Str("exception")]
        stored == JsonSerializable(request_data) /\ JsonSerializable(response_data) IN
    /\ w.pc = "except"
    /\ apilog' = APILogCreate(apilog, w.req.endpoint, request_data, response_data,
                              500, now - w.transaction_start, p)
    /\ worker' = [worker EXCEPT ![p] =
                    [w EXCEPT !.pc = "finally",
                              !.resp = [status |-> 500,
                                        body |-> IF stored THEN "error" ELSE "server_error"]]]
    /\ UNCHANGED <<now, cache, tokens>>

\* release_locks with its test inverted ("if not lock_keys"): nothing is deleted
release_txn_inverted(p) ==
    /\ worker[p].pc = "finally"
    /\ worker' = [worker EXCEPT ![p] = Finish(worker[p], worker[p].resp)]
    /\ UNCHANGED <<now, cache, tokens, apilog>>

\* finally: release_locks(lock_keys), first key
release_txn(p) ==
    LET w == worker[p] IN
    /\ w.pc = "finally"
    /\ IF w.lock_keys = <<>>
       THEN /\ cache' = cache
            /\ worker' = [worker EXCEPT ![p] = Finish(w, w.resp)]
       ELSE /\ cache' = cache_delete(cache, w.lock_keys[1])
            /\ worker' = [worker EXCEPT ![p] = [w EXCEPT !.pc = "rel_res"]]
    /\ UNCHANGED <<now, tokens, apilog>>

\* release_locks, second key; the response goes out
release_resource(p) ==
    LET w == worker[p] IN
    /\ w.pc = "rel_res"
    /\ cache' = cache_delete(cache, w.lock_keys[2])
    /\ worker' = [worker EXCEPT ![p] = Finish(w, w.resp)]
    /\ UNCHANGED <<now, tokens, apilog>>

(* ---------------------------------------------------------------------- *)
(* Specifications.                                                         *)
(* ---------------------------------------------------------------------- *)
\* the lock and audit steps of sell_power and pay_bill
GuardStep(p) ==
    \/ acquire_resource_lock(p)
    \/ acquire_cleanup(p)
    \/ log_lock_failure(p)
    \/ log_success(p)
    \/ handle_exception(p)
    \/ release_txn(p)
    \/ release_resource(p)

\* the service: constructor, token refresh, _make_request
ServiceStep(p, E, A) ==
    \/ service_init(p)
    \/ token_response(p, E)
    \/ token_create(p)
    \/ make_request_enter(p)
    \/ make_request_send(p)
    \/ gateway_response(p, A)

UsableToken == <<[end_time |-> 100000, is_active |-> TRUE]>>

\* Spec: two handlers of any of the four views contend for the locks while the
\* session token is healthy: the table starts with a usable token and the gateway
\* does not report it expired, so the service never has to refresh it.
HealthyAnswers == BusinessAnswers \ {[http |-> 200, state |-> TokenExpiredState]}

Next ==
    \/ Tick
    \/ \E p \in Procs : request_received(p, Inputs)
    \/ \E p \in Procs : GuardStep(p)
    \/ \E p \in Procs : service_init(p)
    \/ \E p \in Procs : make_request_enter(p)
    \/ \E p \in Procs : gateway_response(p, HealthyAnswers)

\* the state after start-up with a token that is valid beyond the buffer
HealthyInit == Init /\ tokens = UsableToken

Spec == HealthyInit /\ [][Next]_vars

\* AmountSpec: two handlers of any of the four views, fed amounts in every form the
\* serializer accepts or rejects and requests that lack a key the view reads; the
\* gateway answers at once and the token is healthy.
AmountNext ==
    \/ \E p \in Procs : request_received(p, AmountInputs)
    \/ \E p \in Procs : GuardStep(p)
    \/ \E p \in Procs : service_init(p)
    \/ \E p \in Procs : make_request_enter(p)
    \/ \E p \in Procs : gateway_response(p, HealthyAnswers)

AmountSpec == HealthyInit /\ [][AmountNext]_vars

\* the last reading the clock takes
LastTick == (MaxTime \div TickSize) * TickSize

\* The worker process dies inside the guarded service call (kill, out of memory,
\* power loss): neither the except block nor finally runs, the lock entries stay.
\* Only deaths whose locks run out within the clock's range are followed.
crash(p) ==
    LET w == worker[p] IN
    /\ w.pc \in ServicePcs
    /\ w.lock_keys # <<>>
    /\ w.transaction_start + LockTTL <= LastTick
    /\ worker' = [worker EXCEPT ![p] =
                    [IdleWorker EXCEPT !.pc = "crashed", !.req = w.req,
                                       !.sign_type = w.sign_type,
                                       !.lock_keys = w.lock_keys,
                                       !.transaction_start = w.transaction_start]]
    /\ UNCHANGED <<now, cache, tokens, apilog>>

\* CrashSpec: two sell_power handlers for one meter contend for the locks under equal or
\* different transaction ids, the token is healthy, and
\* a handler may die while it holds its locks.  Time passes, a handler that is alive
\* keeps running, and requests.post ends by its timeout at the latest.
CrashInputs == {i \in ValidInputs : i.endpoint = "sell_power" /\ i.resource_id = R1}

WorkerStep(p) ==
    \/ GuardStep(p)
    \/ service_init(p)
    \/ make_request_enter(p)
    \/ gateway_response(p, HealthyAnswers)

CrashNext ==
    \/ Tick
    \/ \E p \in Procs : request_received(p, CrashInputs)
    \/ \E p \in Procs : WorkerStep(p)
    \/ \E p \in Procs : crash(p)

CrashSpec ==
    HealthyInit /\ [][CrashNext]_vars
        /\ WF_vars(Tick) /\ \A p \in Procs : WF_vars(WorkerStep(p))

\* SoloSpec: one handler of any view but the sales inquiry and the token status on its
\* own, followed from the
\* request to the response against every token table and every gateway answer.
\* Nobody else holds a lock, so acquire_locks succeeds.
SoloNext ==
    \/ Tick
    \/ request_received("w1", Inputs \cup ViewInputs)
    \/ acquire_resource_lock("w1")
    \/ ServiceStep("w1", IssuedEndTimes, BusinessAnswers)
    \/ log_success("w1")
    \/ handle_exception("w1")
    \/ release_txn("w1")
    \/ release_resource("w1")

SoloSpec == Init /\ [][SoloNext]_vars

\* PermSpec: _generate_signature on its own.  Each worker holds a parameter mapping
\* drawn from every insertion order of every choice of pairs from a pool with two
\* texts for amt and two names whose value the cleaning step drops, and signs it.
ParamPool ==
    { <<"user", Str("API_USER")>>, <<"amt", Str("1050.00")>>, <<"amt", Str("2000.50")>>,
      <<"code", NoneValue>>, <<"password", Empty>> }

ParamMappings ==
    { s \in UNION { [1..n -> ParamPool] : n \in 0..Cardinality(ParamPool) } :
        \A j, k \in 1..Len(s) : s[j][1] = s[k][1] => j = k }

PermInit ==
    /\ now = 0
    /\ cache = [k \in Keys |-> Absent]
    /\ tokens = <<>>
    /\ apilog = <<>>
    /\ worker \in [Procs -> { [IdleWorker EXCEPT !.pc = "to_sign",
                                                 !.wire = [params |-> m,
                                                           seed |-> generate_seed(<<0, 0>>),
                                                           token |-> t, sign |-> <<>>]] :
                              m \in ParamMappings, t \in 0..1 }]

\* a call of _generate_signature(params, seed, token), under either sign type
sign_params(p) ==
    LET w == worker[p] IN
    /\ w.pc = "to_sign"
    /\ worker' = [worker EXCEPT ![p] =
                     [w EXCEPT !.pc = "signed",
                               !.wire.sign =
                                   [m \in SignTypes |->
                                       generate_signature(Self(m), w.wire.params,
                                                          w.wire.seed, w.wire.token)]]]
    /\ UNCHANGED <<now, cache, tokens, apilog>>

PermNext == \E p \in Procs : sign_params(p)

PermSpec == PermInit /\ [][PermNext]_vars

\* ReleaseSpec: release_locks on its own.  Each caller holds None or the two keys of a
\* sale and calls release_locks twice; the store starts with each of those keys absent
\* or held, by the caller or by somebody else, and entries run out as time passes.
ReleaseInputs == {i \in ValidInputs : i.endpoint = "sell_power" /\ i.resource_id = R1}

ReleaseKeyLists == {<<>>} \cup {<<TxnKey(i), ResourceKey(i)>> : i \in ReleaseInputs}

ReleaseKeys == {TxnKey(i) : i \in ReleaseInputs} \cup {ResourceKey(i) : i \in ReleaseInputs}

ReleaseStores ==
    { [k \in Keys |-> IF k \in ReleaseKeys THEN held[k] ELSE Absent] :
        held \in [ReleaseKeys -> {Absent, [exp |-> TickSize, owner |-> "w2"],
                                  [exp |-> LockTTL, owner |-> "w1"]}] }

ReleaseInit ==
    /\ now = 0
    /\ cache \in ReleaseStores
    /\ tokens = <<>>
    /\ apilog = <<>>
    /\ worker \in [Procs -> { [IdleWorker EXCEPT !.pc = "to_release", !.lock_keys = ks] :
                              ks \in ReleaseKeyLists }]

\* a call of release_locks(lock_keys) begins, the first or the same call again:
\* nothing for None, else cache.delete of the first key
release_locks_call(p) ==
    LET w == worker[p]
        again == w.pc = "released" IN
    /\ w.pc \in {"to_release", "released"}
    /\ IF w.lock_keys = <<>>
       THEN /\ cache' = cache
            /\ worker' = [worker EXCEPT ![p] =
                             [w EXCEPT !.pc = IF again THEN "released_again"
                                              ELSE "released"]]
       ELSE /\ cache' = cache_delete(cache, w.lock_keys[1])
            /\ worker' = [worker EXCEPT ![p] =
                             [w EXCEPT !.pc = IF again THEN "releasing_again"
                                              ELSE "releasing"]]
    /\ UNCHANGED <<now, tokens, apilog>>

\* the loop of release_locks goes on: cache.delete of the second key, and the call ends
release_locks_next(p) ==
    LET w == worker[p] IN
    /\ w.pc \in {"releasing", "releasing_again"}
    /\ cache' = cache_delete(cache, w.lock_keys[2])
    /\ worker' = [worker EXCEPT ![p] =
                     [w EXCEPT !.pc = IF w.pc = "releasing" THEN "released"
                                      ELSE "released_again"]]
    /\ UNCHANGED <<now, tokens, apilog>>

\* time passes between the calls
ReleaseTick ==
    /\ now + TickSize <= MaxTime
    /\ now' = now + TickSize
    /\ cache' = Expire(cache, now + TickSize)
    /\ UNCHANGED <<tokens, apilog, worker>>

ReleaseNext ==
    \/ ReleaseTick
    \/ \E p \in Procs : release_locks_call(p)
    \/ \E p \in Procs : release_locks_next(p)

ReleaseSpec == ReleaseInit /\ [][ReleaseNext]_vars

\* inquiry_sales_transactions up to the service call: validation only
inquiry_received(p, I) ==
    /\ worker[p].pc = "idle"
    /\ \E i \in I :
          worker' = [worker EXCEPT ![p] =
                        IF is_valid(i)
                        THEN [worker[p] EXCEPT !.req = i, !.pc = "svc_init"]
                        ELSE Finish([worker[p] EXCEPT !.req = i],
                                    [status |-> 400, body |-> "errors"])]
    /\ UNCHANGED <<now, cache, tokens, apilog>>

\* the list cut at the count the request carries under the key 'count': a python
\* slice, a negative count drops that many entries from the end
SliceAtRequestData(n, c) ==
    IF c[1] = "absent" THEN [status |-> 500, body |-> "'count'"]
    ELSE IF c[1] # "int"
    THEN [status |-> 500, body |-> "slice indices must be integers"]
    ELSE [status |-> 200, body |-> "result",
          details |-> IF c[2] >= n THEN n
                      ELSE IF c[2] >= 0 THEN c[2]
                      ELSE IF n + c[2] >= 0 THEN n + c[2] ELSE 0]

\* result["details"] = result['details'][:request.data['count']]; Response(result).
\* The payload carries a list of n entries under 'details' or no such key; a KeyError
\* or TypeError ends in the view's except block.
inquiry_slice(p) ==
    LET w == worker[p] IN
    /\ w.pc = "inq_slice"
    /\ \/ \E n \in 0..MaxDetails :
             worker' = [worker EXCEPT ![p] = Finish(w, SliceAtRequestData(n, w.req.count))]
       \/ worker' = [worker EXCEPT ![p] =
                        Finish(w, [status |-> 500, body |-> "'details'"])]
    /\ UNCHANGED <<now, cache, tokens, apilog>>

\* InquirySpec: one inquiry_sales_transactions handler on its own, with 'count' left
\* out, given as an integer or as a string the IntegerField reads or refuses, with and
\* without meter_number, followed through the service call against every token table
\* and every gateway answer.
InquiryNext ==
    \/ Tick
    \/ inquiry_received("w1", InquiryInputs)
    \/ ServiceStep("w1", IssuedEndTimes, BusinessAnswers)
    \/ inquiry_slice("w1")

InquirySpec == Init /\ [][InquiryNext]_vars

\* ScanSpec: one handler on its own against token tables of every shape the scan of
\* _get_active_token has to tell apart: rows inside the buffer, inactive rows, several
\* active rows (two refreshes that ran together leave such a table).
ScanTables ==
    { <<>>,
      <<[end_time |-> 200, is_active |-> TRUE]>>,
      <<[end_time |-> 100000, is_active |-> FALSE]>>,
      <<[end_time |-> 200, is_active |-> TRUE], [end_time |-> 100000, is_active |-> TRUE]>>,
      <<[end_time |-> 100000, is_active |-> FALSE], [end_time |-> 100000, is_active |-> TRUE]>>,
      <<[end_time |-> 100000, is_active |-> TRUE], [end_time |-> 200000, is_active |-> TRUE]>> }

ScanInit ==
    /\ now = 0
    /\ cache = [k \in Keys |-> Absent]
    /\ tokens \in ScanTables
    /\ apilog = <<>>
    /\ worker = [p \in Procs |-> IdleWorker]

ScanSpec == ScanInit /\ [][SoloNext]_vars

\* ConfigSpec: one handler on its own under each value settings may give SIGN_TYPE,
\* the two supported ones and one that is not.
ConfiguredSignTypes == SignTypes \cup {"SHA1"}

ConfigInit ==
    /\ now = 0
    /\ cache = [k \in Keys |-> Absent]
    /\ tokens \in InitialTokens
    /\ apilog = <<>>
    /\ \E m \in ConfiguredSignTypes :
          worker = [p \in Procs |-> [IdleWorker EXCEPT !.sign_type = m]]

ConfigSpec == ConfigInit /\ [][SoloNext]_vars

\* requests to the views that take no lock
UnguardedInputs == {i \in Inputs : i.endpoint \in Unguarded}

\* TokenSpec: two handlers of views that take no lock run the service against every
\* token table and every gateway answer, short-lived tokens included: pay_arrear, which
\* enters _make_request as every business view does, and get_token_status, which
\* scans the table a second time through get_token.
TokenInputs == {i \in Inputs : i.endpoint = "pay_arrear"}

TokenNext ==
    \/ Tick
    \/ \E p \in Procs : request_received(p, TokenInputs)
    \/ \E p \in Procs : status_received(p)
    \/ \E p \in Procs : ServiceStep(p, IssuedEndTimes, BusinessAnswers)
    \/ \E p \in Procs : get_token(p)

TokenSpec == Init /\ [][TokenNext]_vars

\* RetrySpec: one handler on its own, followed through its whole service call
\* against every token table and every gateway answer.  A handler that has started
\* keeps running (its thread is never abandoned) and requests.post ends, at the
\* latest by its timeout: weak fairness of the handler's steps.
RetryNext ==
    \/ Tick
    \/ request_received("w1", UnguardedInputs)
    \/ ServiceStep("w1", IssuedEndTimes, BusinessAnswers)

RetrySpec ==
    Init /\ [][RetryNext]_vars
         /\ WF_vars(ServiceStep("w1", IssuedEndTimes, BusinessAnswers))

(* ---------------------------------------------------------------------- *)
(* Properties.                                                             *)
(* ---------------------------------------------------------------------- *)
LockMessageTxn == "Transaction already being processed"

\* the handler holds both locks, as far as it knows, and is in the service call
InGuard(p) == worker[p].lock_keys # <<>> /\ worker[p].pc \in ServicePcs

\* the handler created the transaction-id lock and has not deleted it yet
HoldsTxn(p) ==
    \/ worker[p].pc \in {"lock_res", "lock_cleanup"}
    \/ worker[p].lock_keys # <<>> /\ worker[p].pc \notin {"rel_res", "done"}

\* the handler acquired both locks and has not begun to release them
HoldsBoth(p) == worker[p].lock_keys # <<>> /\ worker[p].pc \notin {"rel_res", "done"}

\* audit records written by a handler
RecordsOf(p) == {n \in 1..Len(apilog) : apilog[n].by = p}

ActiveTokens == {n \in 1..Len(tokens) : tokens[n].is_active}

\* C1: at most one handler at a time is inside the guarded service call for a given
\* transaction id, and at most one for a given (resource, amount, operation) triple.
MutualExclusion ==
    \A p, q \in Procs :
        (p # q /\ InGuard(p) /\ InGuard(q)) =>
            /\ worker[p].lock_keys[1] # worker[q].lock_keys[1]
            /\ worker[p].lock_keys[2] # worker[q].lock_keys[2]

\* C2: of two overlapping guarded requests with the same transaction id only one
\* creates the lock txn_<id>; the other answers 423 'Transaction already being
\* processed' and has sent nothing to the gateway.
DuplicateTransactionRejected ==
    /\ \A p, q \in Procs :
          (p # q /\ HoldsTxn(p) /\ HoldsTxn(q)) =>
              worker[p].req.transaction_id # worker[q].req.transaction_id
    /\ \A p \in Procs :
          (worker[p].pc = "done" /\ worker[p].error_message = LockMessageTxn) =>
              /\ worker[p].resp = [status |-> 423, body |-> LockMessageTxn]
              /\ worker[p].sent_tok = 0
              /\ worker[p].sent_biz = 0

\* C3: of two overlapping guarded requests for the same resource, amount and
\* operation under different transaction ids only one acquires both locks, and a
\* request refused on the resource lock leaves no transaction-id lock of its own.
ResourceContentionResolved ==
    /\ \A p, q \in Procs :
          (p # q /\ HoldsBoth(p) /\ HoldsBoth(q)
               /\ worker[p].req.transaction_id # worker[q].req.transaction_id) =>
              worker[p].lock_keys[2] # worker[q].lock_keys[2]
    /\ \A p \in Procs :
          (worker[p].pc = "done" /\ worker[p].req.valid
               /\ worker[p].req.endpoint \in Guarded /\ worker[p].lock_keys = <<>>) =>
              cache[TxnKey(worker[p].req)].owner # p

\* C4: when a guarded call that acquired both locks has returned, whatever its
\* outcome, no lock entry it created is left in the store.
LocksReleasedOnReturn ==
    \A p \in Procs :
        (worker[p].pc = "done" /\ worker[p].lock_keys # <<>>) =>
            /\ cache[worker[p].lock_keys[1]].owner # p
            /\ cache[worker[p].lock_keys[2]].owner # p

\* C4 witness: a call that held both locks has returned after an exception, and a
\* following request with the same transaction id, resource and amount holds both
\* locks at that same instant.
LocksReacquiredAfterReturn ==
    \E p, q \in Procs :
        /\ p # q
        /\ worker[p].pc = "done" /\ worker[p].lock_keys # <<>>
        /\ worker[p].resp.status = 500
        /\ InGuard(q) /\ worker[q].lock_keys = worker[p].lock_keys
        /\ cache[worker[q].lock_keys[1]] = [exp |-> now + LockTTL, owner |-> q]
        /\ cache[worker[q].lock_keys[2]] = [exp |-> now + LockTTL, owner |-> q]



\* C5: per logical _make_request call at most two business requests are sent; the
\* answer to the re-sent request (retry_on_token_expiry = False) ends the call with
\* no further token request and no further send, so a token-expired answer is only
\* ever returned after the one retry; the first token-expired answer triggers exactly
\* one token request and uses up the retry; and every call ends.
RetryAtMostOnce ==
    /\ [](\A p \in Procs :
            /\ worker[p].sent_biz <= 2
            /\ (worker[p].pc = "done" /\ worker[p].resp.status = 200
                  /\ worker[p].data.state = TokenExpiredState) => worker[p].sent_biz = 2)
    /\ [][\A p \in Procs :
            /\ (worker[p].pc = "mr_wait" /\ ~worker[p].retry /\ worker'[p] # worker[p]) =>
                  /\ worker'[p].pc = "done"
                  /\ worker'[p].sent_tok = worker[p].sent_tok
                  /\ worker'[p].sent_biz = worker[p].sent_biz
            /\ (worker[p].pc = "mr_wait" /\ worker[p].sent_biz = 1
                  /\ worker'[p].pc = "tok_wait") =>
                  /\ ~worker'[p].retry
                  /\ worker'[p].sent_tok = worker[p].sent_tok + 1
            /\ worker'[p].sent_biz \in {worker[p].sent_biz, worker[p].sent_biz + 1}
       ]_vars
    /\ \A p \in Procs : (worker[p].pc \in ServicePcs) ~> (worker[p].pc = "done")

\* C5 witness: the re-sent request was answered token-expired as well and that answer
\* was returned, after two business requests.
SecondExpiryReturned ==
    \E p \in Procs :
        /\ worker[p].pc = "done"
        /\ worker[p].resp.status = 200
        /\ worker[p].data.state = TokenExpiredState
        /\ worker[p].sent_biz = 2

\* C6: no two stored tokens are active at once.
AtMostOneActiveToken == Cardinality(ActiveTokens) <= 1

\* C7: a _get_new_token that succeeds while no other worker is inside _get_new_token
\* leaves exactly one active row: the row it just appended, with the end_time the
\* gateway sent; every older row is inactive. The caller gets the new row: __init__
\* and _make_request keep it as current_token, get_token hands it to the view.
SoloRefreshLeavesOneActive ==
    [][\A p \in Procs :
          (worker[p].pc = "tok_create" /\ worker'[p].pc # "tok_create" /\ worker[p].solo) =>
              LET n == Len(tokens') IN
              /\ n = Len(tokens) + 1
              /\ tokens'[n] = [end_time |-> worker[p].new_end, is_active |-> TRUE]
              /\ \A m \in 1..(n - 1) : ~tokens'[m].is_active
              /\ \A m \in 1..(n - 1) : tokens'[m].end_time = tokens[m].end_time
              /\ IF worker[p].tok_ret = "get_token"
                 THEN worker'[p].resp = [status |-> 200, body |-> "token"]
                 ELSE worker'[p].current_token = n
      ]_vars

\* C7 witness: a refresh that ran alone has replaced a token that was active before.
SoloRefreshReplaced ==
    \E p \in Procs :
        /\ worker[p].solo
        /\ worker[p].pc \in {"mr_enter", "mr_send"}
        /\ Len(tokens) >= 2
        /\ worker[p].current_token = Len(tokens)
        /\ ActiveTokens = {Len(tokens)}

\* C8: a _get_new_token that fails leaves the token table as it was.
FailedRefreshChangesNothing ==
    [][\A p \in Procs :
          (worker[p].pc = "tok_wait" /\ worker'[p].pc \in {"done", "except"}) =>
              tokens' = tokens
      ]_vars

\* C9: a validated sell_power or pay_bill call that has returned has written exactly
\* one audit record, with a duration >= 0.
ExactlyOneAuditRecord ==
    \A p \in Procs :
        (worker[p].pc = "done" /\ worker[p].req.valid
             /\ worker[p].req.endpoint \in Guarded) =>
            /\ Cardinality(RecordsOf(p)) = 1
            /\ \A n \in RecordsOf(p) : apilog[n].duration >= 0

\* C10: a business request of a money-moving action (sale, pay_bill, payarrear,
\* transfer_amt) is on the wire only while its handler holds both locks.
MoneyMovingRequestsGuarded ==
    \A p \in Procs :
        worker[p].pc = "mr_wait" => worker[p].lock_keys # <<>>

\* C11: a sell_power or pay_bill request that fails validation is answered 400; the
\* step that answers it leaves the lock store as it is, the handler never owns a lock
\* entry, and it sends neither a token request nor a business request.
ValidationFailureTouchesNothing ==
    /\ [](\A p \in Procs :
            (worker[p].pc = "done" /\ ~worker[p].req.valid
                 /\ worker[p].req.endpoint \in Guarded) =>
                /\ worker[p].resp.status = 400
                /\ worker[p].lock_keys = <<>>
                /\ worker[p].sent_tok = 0
                /\ worker[p].sent_biz = 0)
    /\ [](\A p \in Procs : \A k \in Keys :
            (cache[k].owner = p /\ worker[p].req.endpoint \in Guarded) =>
                worker[p].req.valid)
    /\ [][\A p \in Procs :
            (worker[p].pc = "idle" /\ worker'[p].pc # "idle"
                 /\ ~worker'[p].req.valid /\ worker'[p].req.endpoint \in Guarded) =>
                /\ worker'[p].pc = "done"
                /\ cache' = cache
         ]_vars

\* C11 witness: a rejected guarded request has been answered 400 while another
\* handler holds the lock of the very transaction id the rejected request carried.
RejectedWhileLockHeld ==
    \E p, q \in Procs :
        /\ p # q
        /\ worker[p].pc = "done" /\ ~worker[p].req.valid
        /\ worker[p].req.endpoint \in Guarded
        /\ worker[p].resp.status = 400
        /\ InGuard(q)
        /\ worker[q].lock_keys[1] = TxnKey(worker[p].req)
        /\ cache[TxnKey(worker[p].req)].owner = q

\* C12: a sell_power or pay_bill call that failed validation has appended exactly one
\* audit record, and no step changes or removes a record already in the table.
ValidationFailureAudited ==
    /\ [](\A p \in Procs :
            (worker[p].pc = "done" /\ ~worker[p].req.valid
                 /\ worker[p].req.endpoint \in Guarded) =>
                Cardinality(RecordsOf(p)) = 1)
    /\ [][/\ Len(apilog') >= Len(apilog)
          /\ \A n \in 1..Len(apilog) : apilog'[n] = apilog[n]]_vars

\* the number of hundredths a formatted amount <<integer part, digit, digit>> denotes
Denotes(a) == a[1] * 100 + a[2] * 10 + a[3]

\* the amount argument of every service call is a string of two fractional digits
\* denoting the value the caller sent
HandedAmountFormatted(p) ==
    \A n \in 1..Len(worker[p].called_with) :
        LET a == worker[p].called_with[n] IN
        /\ a[1] = "str"
        /\ a[2][2] \in 0..9 /\ a[2][3] \in 0..9
        /\ Denotes(a[2]) = to_internal_value(worker[p].req.raw)

CarriesAllKeys(i) ==
    (ReadAtEntry(i.endpoint) \cup ReadAtCall(i.endpoint)) \cap i.absent = {}

WireAmountIsFormattedString ==
    \A p \in Procs :
        worker[p].pc = "mr_wait" =>
            LET amt == worker[p].called_with[1] IN
            /\ amt[1] = "str"
            /\ amt[2][2] \in 0..9 /\ amt[2][3] \in 0..9

\* C15: a sell_power or pay_bill call in which acquire_locks failed is answered 423
\* with acquire_locks' error message, never 400 and never 500.
LockFailureAnswered423 ==
    \A p \in Procs :
        (worker[p].pc = "done" /\ worker[p].req.endpoint \in Guarded
             /\ worker[p].error_message # "") =>
            worker[p].resp = [status |-> 423, body |-> worker[p].error_message]

\* C16: a lock entry is only ever deleted by the handler that created it: whenever a
\* step other than the passing of time removes an entry, the entry's creator is the
\* handler that took the step.
OnlyOwnerDeletes ==
    [][\A k \in Keys : \A p \in Procs :
          (cache[k].owner = p /\ cache'[k].owner = "none" /\ now' = now) =>
              worker'[p] # worker[p]
      ]_vars

\* C17: an answer with HTTP 200 and a state other than 0 and -95131 ends
\* _make_request at once: nothing more is sent, the token table is untouched, the
\* payload is what the service returns, and the view of any endpoint answers 200 with
\* it.  (An inquiry whose 'count' the slice cannot take is left to C36.)
BusinessErrorPassedThrough ==
    /\ [][\A p \in Procs :
            (worker[p].pc = "mr_wait" /\ worker'[p].pc # "mr_wait"
                 /\ worker'[p].data.http = 200
                 /\ worker'[p].data.state \notin {0, TokenExpiredState}) =>
                /\ worker'[p].pc \in {"log_ok", "inq_slice", "done"}
                /\ worker'[p].sent_tok = worker[p].sent_tok
                /\ worker'[p].sent_biz = worker[p].sent_biz
                /\ tokens' = tokens
         ]_vars
    /\ [](\A p \in Procs :
            (/\ worker[p].data.http = 200
             /\ worker[p].data.state \notin {0, TokenExpiredState}
             /\ worker[p].req.endpoint = "inquiry_sales_transactions" =>
                    worker[p].req.count[1] = "int") =>
                /\ worker[p].pc \in {"log_ok", "inq_slice", "finally", "rel_res", "done"}
                /\ worker[p].pc \notin {"log_ok", "inq_slice"} =>
                       /\ worker[p].resp.status = 200
                       /\ worker[p].resp.body = "result")

\* C18: an answer with a status other than 200 makes _make_request raise: no token
\* request and no further business request follow, whatever state the body carries,
\* and the view answers 500.
TransportErrorRaises ==
    /\ [][\A p \in Procs :
            (worker[p].pc = "mr_wait" /\ worker'[p].pc # "mr_wait"
                 /\ worker'[p].data.http \notin {0, 200}) =>
                /\ worker'[p].pc \in {"except", "done"}
                /\ worker'[p].sent_tok = worker[p].sent_tok
                /\ worker'[p].sent_biz = worker[p].sent_biz
                /\ tokens' = tokens
         ]_vars
    /\ [](\A p \in Procs :
            worker[p].data.http \notin {0, 200} =>
                /\ worker[p].pc \in {"except", "finally", "rel_res", "done"}
                /\ worker[p].pc # "except" => worker[p].resp.status = 500)

\* C18 witness: a first business request was answered 500 with state -95131 in the
\* body; the call has ended with 500 after that one request and no token request.
Status500WithExpiredStateRaised ==
    \E p \in Procs :
        /\ worker[p].pc = "done"
        /\ worker[p].data = [http |-> 500, state |-> TokenExpiredState]
        /\ worker[p].resp.status = 500
        /\ worker[p].sent_biz = 1
        /\ worker[p].sent_tok = 0

\* the handler died holding its locks, and their time-to-live has run out
LocksOutlived(p) ==
    /\ worker[p].pc = "crashed"
    /\ now >= worker[p].transaction_start + LockTTL

\* C20: the lock entries of a handler that died without release_locks are gone once
\* their 30 seconds have passed, and that moment comes; from then on a request with the
\* same transaction id gets the transaction lock and a request for the same resource,
\* amount and operation gets the resource lock.
CrashedLocksExpire ==
    /\ [](\A p \in Procs : LocksOutlived(p) =>
            /\ cache[worker[p].lock_keys[1]].owner # p
            /\ cache[worker[p].lock_keys[2]].owner # p)
    /\ \A p \in Procs : (worker[p].pc = "crashed") ~> LocksOutlived(p)
    /\ [][\A p, q \in Procs :
            /\ (LocksOutlived(p) /\ worker[q].pc = "idle" /\ worker'[q].pc # "idle"
                  /\ TxnKey(worker'[q].req) = worker[p].lock_keys[1]) =>
                  /\ worker'[q].pc = "lock_res"
                  /\ cache'[TxnKey(worker'[q].req)].owner = q
            /\ (LocksOutlived(p) /\ worker[q].pc = "lock_res" /\ worker'[q].pc # "lock_res"
                  /\ ResourceKey(worker[q].req) = worker[p].lock_keys[2]) =>
                  /\ worker'[q].pc = "svc_init"
                  /\ cache'[ResourceKey(worker[q].req)].owner = q
         ]_vars

\* C20 witness: a handler died holding both locks; thirty seconds later a request
\* with the same transaction id and the same meter and amount holds both locks.
LocksTakenOverAfterCrash ==
    \E p, q \in Procs :
        /\ LocksOutlived(p)
        /\ InGuard(q)
        /\ worker[q].lock_keys = worker[p].lock_keys
        /\ cache[worker[q].lock_keys[1]].owner = q
        /\ cache[worker[q].lock_keys[2]].owner = q

\* two guarded requests that have nothing in common: other transaction id, and another
\* resource, amount or operation
Unrelated(p, q) ==
    /\ worker[p].pc # "idle" /\ worker[q].pc # "idle"
    /\ worker[p].req.valid /\ worker[q].req.valid
    /\ worker[p].req.endpoint \in Guarded /\ worker[q].req.endpoint \in Guarded
    /\ worker[p].req.transaction_id # worker[q].req.transaction_id
    /\ \/ worker[p].req.resource_id # worker[q].req.resource_id
       \/ worker[p].req.amount # worker[q].req.amount
       \/ worker[p].req.endpoint # worker[q].req.endpoint

\* C21: of two concurrent guarded requests that differ in the transaction id and in
\* the (resource, amount, operation) triple, neither is refused a lock: once past
\* acquire_locks each holds its two keys.
UnrelatedRequestsBothAcquire ==
    \A p, q \in Procs :
        (p # q /\ Unrelated(p, q)) =>
            /\ worker[p].error_message = ""
            /\ worker[p].pc # "lock_res" => worker[p].lock_keys # <<>>

\* C21 witness: sell_power and pay_bill for the same resource id and amount, under
\* different transaction ids, are inside the guarded service call together.
SameResourceOtherOperationTogether ==
    \E p, q \in Procs :
        /\ p # q /\ Unrelated(p, q)
        /\ worker[p].req.resource_id = worker[q].req.resource_id
        /\ worker[p].req.amount = worker[q].req.amount
        /\ InGuard(p) /\ InGuard(q)
        /\ \A k \in {1, 2} : cache[worker[p].lock_keys[k]].owner = p
        /\ \A k \in {1, 2} : cache[worker[q].lock_keys[k]].owner = q

\* C22: _get_active_token hands back the first row in scan order that is active and
\* ends later than now + 5 minutes, sending nothing and leaving the table alone; a
\* token request goes out only when no row qualifies.
ActiveTokenSelected ==
    [][\A p \in Procs :
          (worker[p].pc = "svc_init" /\ worker'[p].pc # "svc_init") =>
              LET Q == {n \in 1..Len(tokens) :
                           tokens[n].is_active
                               /\ tokens[n].end_time > now + BufferSeconds} IN
              IF Q # {}
              THEN /\ worker'[p].pc = "mr_enter"
                   /\ worker'[p].current_token \in Q
                   /\ \A n \in Q : worker'[p].current_token <= n
                   /\ worker'[p].sent_tok = worker[p].sent_tok
                   /\ tokens' = tokens
              ELSE /\ worker'[p].pc = "tok_wait"
                   /\ worker'[p].sent_tok = worker[p].sent_tok + 1
      ]_vars

\* C22 witness: the scan passed over an active row that ends within the buffer and
\* returned the second row, with no token request sent.
BufferedRowPassedOver ==
    \E p \in Procs :
        /\ worker[p].pc = "mr_enter"
        /\ worker[p].current_token = 2
        /\ worker[p].sent_tok = 0
        /\ tokens[1].is_active /\ tokens[1].end_time <= now + BufferSeconds
        /\ tokens[2].is_active

\* C23: under a sign type other than MD5 and HMAC-SHA256 no request is ever on the
\* wire, neither get_verify_code nor a business action, the token table never changes,
\* and every call that reaches the service ends with 500.
UnsupportedSignModeSendsNothing ==
    /\ [](\A p \in Procs :
            worker[p].sign_type \notin SignTypes =>
                /\ worker[p].sent_tok = 0
                /\ worker[p].sent_biz = 0
                /\ worker[p].pc \notin {"tok_wait", "tok_create", "mr_wait", "mr_send",
                                        "log_ok"}
                /\ (worker[p].pc = "done" /\ worker[p].req.valid) =>
                       worker[p].resp.status = 500)
    /\ [][(\A p \in Procs : worker[p].sign_type \notin SignTypes) => tokens' = tokens]_vars

\* C23 witness: with SIGN_TYPE = SHA1 a sell_power call took its locks, found a usable
\* stored token, failed to sign the sale and answered 500; nothing was sent and the
\* token is still active.
UnsupportedModeFailedSale ==
    \E p \in Procs :
        /\ worker[p].sign_type = "SHA1"
        /\ worker[p].pc = "done"
        /\ worker[p].req.endpoint = "sell_power"
        /\ worker[p].called_with # <<>>
        /\ worker[p].resp.status = 500
        /\ worker[p].sent_biz = 0 /\ worker[p].sent_tok = 0
        /\ tokens = UsableToken

\* C24: two requests signed in the same process never carry the same seed, also when
\* they were built at the same clock reading.
SeedsDistinct ==
    \A p, q \in Procs :
        (p # q /\ worker[p].pc = "mr_wait" /\ worker[q].pc = "mr_wait") =>
            worker[p].wire.seed # worker[q].wire.seed

\* C25: at the step that puts a business request on the wire, the token it is signed
\* with is a stored row that is flagged active and has not reached its end_time.
SignedWithLiveToken ==
    [][\A p \in Procs :
          (worker[p].pc # "mr_wait" /\ worker'[p].pc = "mr_wait") =>
              LET t == worker'[p].wire.token IN
              /\ t \in 1..Len(tokens)
              /\ tokens[t].is_active
              /\ tokens[t].end_time > now
      ]_vars

\* C26: in a sell_power or pay_bill call that acquired its locks, the audit record is
\* in the table when release_locks starts, and both lock entries are released when
\* the response goes out.
AuditThenReleaseThenResponse ==
    \A p \in Procs :
        (worker[p].req.endpoint \in Guarded /\ worker[p].lock_keys # <<>>) =>
            /\ worker[p].pc \in {"finally", "rel_res", "done"} =>
                   Cardinality(RecordsOf(p)) = 1
            /\ worker[p].pc = "done" =>
                   /\ cache[worker[p].lock_keys[1]].owner # p
                   /\ cache[worker[p].lock_keys[2]].owner # p

\* C27: _is_token_expired is true exactly when the token's end_time <= now: the entry
\* of _make_request with a held token starts a refresh exactly in that case, and sends
\* the business request with the held token otherwise, also when the token's end_time
\* lies within the next five minutes.
ExpiredExactlyAtEndTime ==
    [][\A p \in Procs :
          (worker[p].pc = "mr_enter" /\ worker'[p].pc # "mr_enter"
              /\ worker[p].current_token # 0) =>
              LET end_time == tokens[worker[p].current_token].end_time IN
              /\ (end_time <= now) <=>
                     (worker'[p].pc = "tok_wait"
                          /\ worker'[p].sent_tok = worker[p].sent_tok + 1)
              /\ (end_time > now) =>
                     /\ worker'[p].sent_tok = worker[p].sent_tok
                     /\ worker'[p].pc = "mr_wait" =>
                            /\ worker'[p].sent_biz = worker[p].sent_biz + 1
                            /\ worker'[p].wire.token = worker[p].current_token
      ]_vars

TokenInsideBufferUsed ==
    \E p \in Procs :
        /\ worker[p].pc = "mr_wait"
        /\ worker[p].current_token # 0
        /\ worker[p].wire.token = worker[p].current_token
        /\ ~ worker[p].retry
        /\ now < tokens[worker[p].current_token].end_time
        /\ tokens[worker[p].current_token].end_time <= now + BufferSeconds

\* C28: no step deletes a stored token and no inactive token becomes active again:
\* every row stays in the table with its end_time, a row that is inactive stays
\* inactive, and a row that is new is active.
TokensOnlyCreatedOrDeactivated ==
    [][/\ Len(tokens') >= Len(tokens)
       /\ \A i \in 1..Len(tokens) :
              /\ tokens'[i].end_time = tokens[i].end_time
              /\ ~ tokens[i].is_active => ~ tokens'[i].is_active
       /\ \A i \in (Len(tokens) + 1)..Len(tokens') : tokens'[i].is_active
      ]_vars

SupersededTokenKept ==
    /\ Len(tokens) >= 2
    /\ ~ tokens[1].is_active
    /\ tokens[Len(tokens)].is_active
    /\ \E p \in Procs : worker[p].current_token = Len(tokens)

\* C29: the data sell_power and pay_bill hand to the audit sink has been through
\* sanitize_for_json, so the write does not fail: every step of a view that calls
\* APILog.objects.create stores one more record.
AuditWriteNeverFails ==
    [][\A p \in Procs :
          (worker[p].req.endpoint \in Guarded
              /\ worker[p].pc \in {"log_lock_fail", "except", "log_ok"}
              /\ worker'[p].pc # worker[p].pc) =>
              /\ Len(apilog') = Len(apilog) + 1
              /\ apilog'[Len(apilog')].by = p
      ]_vars

\* the key/value pairs of a mapping whose value is neither None nor ""
NonEmptyPairs(s) == {s[k] : k \in {j \in 1..Len(s) : NotEmpty(s[j])}}

\* C30: two mappings that hold the same pairs with non-empty values get the same
\* signature from _generate_signature under the same seed and token, whatever their
\* insertion order and whatever further names they hold with value None or "".
SignatureIgnoresOrderAndEmpties ==
    \A p, q \in Procs :
        (/\ worker[p].pc = "signed" /\ worker[q].pc = "signed"
         /\ worker[p].wire.seed = worker[q].wire.seed
         /\ worker[p].wire.token = worker[q].wire.token
         /\ NonEmptyPairs(worker[p].wire.params) = NonEmptyPairs(worker[q].wire.params)) =>
            worker[p].wire.sign = worker[q].wire.sign

ReorderedAndPaddedSignedAlike ==
    \E p, q \in Procs :
        /\ p # q
        /\ worker[p].pc = "signed" /\ worker[q].pc = "signed"
        /\ worker[p].wire.token = worker[q].wire.token
        /\ NonEmptyPairs(worker[p].wire.params) = NonEmptyPairs(worker[q].wire.params)
        /\ Cardinality(NonEmptyPairs(worker[p].wire.params)) = 2
        /\ SelectSeq(worker[p].wire.params, NotEmpty)
               # SelectSeq(worker[q].wire.params, NotEmpty)
        /\ Len(worker[q].wire.params) = Len(worker[p].wire.params) + 2
        /\ worker[p].wire.sign = worker[q].wire.sign
        /\ worker[p].wire.sign["MD5"] # <<"ValueError">>

\* C31: release_locks is idempotent: the second call with the same keys changes
\* nothing in the store, whether the keys are absent, expired or None, and it ends
\* like the first without an error; applied twice to any store the function gives
\* what it gives applied once.
ReleaseIdempotent ==
    [][\A p \in Procs :
          /\ (worker[p].pc \in {"released", "releasing_again"}
                 /\ worker'[p].pc # worker[p].pc) =>
                 /\ worker'[p].pc \in {"releasing_again", "released_again"}
                 /\ cache' = cache
          /\ (worker[p].pc # "released" /\ worker'[p].pc = "released") =>
                 cache' = release_locks(cache', worker[p].lock_keys)
          /\ release_locks(release_locks(cache, worker[p].lock_keys), worker[p].lock_keys)
                 = release_locks(cache, worker[p].lock_keys)
          /\ release_locks(cache, <<>>) = cache
      ]_vars

ReleasedTwiceOthersKept ==
    \E p, q \in Procs :
        /\ p # q
        /\ worker[p].pc = "released_again" /\ worker[p].lock_keys # <<>>
        /\ worker[q].pc = "released_again" /\ worker[q].lock_keys = <<>>
        /\ \A n \in 1..2 : cache[worker[p].lock_keys[n]] = Absent
        /\ \E k \in ReleaseKeys : cache[k] # Absent

\* a guarded request that acquire_locks has turned away
Rejected(p) ==
    /\ worker[p].req.endpoint \in Guarded
    /\ worker[p].req.valid
    /\ worker[p].error_message # ""

\* C32: of the guarded requests that contend from an empty lock store at least one
\* acquires both locks, whatever the interleaving: they are never all rejected; and
\* acquire_locks never blocks: at each of its steps the handler can go on, whatever
\* the store holds.
ContentionLeavesAWinner ==
    /\ \E p \in Procs : ~ Rejected(p)
    /\ \A p \in Procs :
          /\ worker[p].pc = "idle" => ENABLED request_received(p, GuardedInputs)
          /\ worker[p].pc \in {"lock_res", "lock_cleanup"} =>
                 ENABLED (acquire_resource_lock(p) \/ acquire_cleanup(p))

OneRejectedOneAcquired ==
    \E p, q \in Procs :
        /\ p # q
        /\ Rejected(q) /\ worker[q].pc = "done"
        /\ worker[q].error_message # LockMessageTxn
        /\ worker[p].req.endpoint \in Guarded
        /\ worker[p].lock_keys # <<>>
        /\ worker[p].pc \in ServicePcs
        /\ worker[p].transaction_start = worker[q].transaction_start

\* C33: a step of a guarded request that does not end with both locks acquired leaves
\* every lock entry created by another operation as it is; the finally block of a
\* request whose lock_keys is None deletes nothing; and when a rejected request
\* returns, a handler that holds both locks still has both its entries.
FailedAcquireLeavesOthersLocks ==
    [][\A p \in Procs :
          (/\ worker'[p] # worker[p]
           /\ worker'[p].req.endpoint \in Guarded
           /\ worker'[p].req.valid
           /\ worker[p].lock_keys = <<>> /\ worker'[p].lock_keys = <<>>) =>
              /\ \A k \in Keys : cache[k].owner \notin {p, "none"} => cache'[k] = cache[k]
              /\ worker[p].pc = "finally" => cache' = cache
              /\ worker'[p].pc = "done" =>
                     \A q \in Procs \ {p} :
                         (HoldsBoth(q) /\ \A n \in 1..2 : cache[worker[q].lock_keys[n]].owner = q)
                             => \A n \in 1..2 : cache'[worker[q].lock_keys[n]].owner = q
      ]_vars

LoserReturnedWinnerStillLocked ==
    \E p, q \in Procs :
        /\ p # q
        /\ Rejected(q) /\ worker[q].pc = "done" /\ worker[q].lock_keys = <<>>
        /\ worker[q].resp.status = 423
        /\ worker[q].req.transaction_id # worker[p].req.transaction_id
        /\ cache[TxnKey(worker[q].req)] = Absent
        /\ HoldsBoth(p)
        /\ \A n \in 1..2 : cache[worker[p].lock_keys[n]].owner = p

\* C34: whenever a resource lock entry is in the store, the transaction-id lock entry
\* of the operation that created it is in the store as well.
ResourceLockImpliesTxnLock ==
    \A k \in Keys :
        (k[1] = "resource" /\ cache[k] # Absent) =>
            cache[TxnKey(worker[cache[k].owner].req)].owner = cache[k].owner

\* the operation parameters of a request: everything but the seed
OperationParams(params) == SelectSeq(params, LAMBDA kv : kv[1] # "seed")

\* the request sent again has the token of a refresh made after the first request
ResentWithRefreshedToken(first, again) ==
    /\ again.token # first.token
    /\ again.token > first.token
    /\ again.token \in 1..Len(tokens)

\* C35: the request sent again after a token-expired answer is signed with the token
\* the refresh returned, not the one the first request was signed with, carries a
\* seed other than the first request's, and has the first request's operation
\* parameters.
ResentRequestRefreshed ==
    \A p \in Procs :
        (worker[p].pc = "mr_wait" /\ worker[p].first_wire # NoWire) =>
            /\ ResentWithRefreshedToken(worker[p].first_wire, worker[p].wire)
            /\ worker[p].wire.token = worker[p].current_token
            /\ worker[p].wire.seed # worker[p].first_wire.seed
            /\ OperationParams(worker[p].wire.params)
                   = OperationParams(worker[p].first_wire.params)

\* C35 witness: a request is on the wire for the second time within one tick of the
\* clock that the first one was sent at, signed with the row the refresh appended.
ResentWithinOneTick ==
    \E p \in Procs :
        /\ worker[p].pc = "mr_wait" /\ worker[p].sent_biz = 2
        /\ worker[p].first_wire # NoWire
        /\ \E r \in Readings : worker[p].first_wire.seed = generate_seed(r)
        /\ worker[p].wire.token = Len(tokens)
        /\ worker[p].wire.token # worker[p].first_wire.token

\* C36: a valid inquiry_sales_transactions call whose payload has a details list
\* answers 200 with at most count entries, count being the caller's value or 5 when
\* the caller left it out; leaving count out does not make the call fail.
InquiryReturnsAtMostCount ==
    \A p \in Procs :
        (/\ worker[p].pc = "done"
         /\ worker[p].req.endpoint = "inquiry_sales_transactions"
         /\ worker[p].req.valid) =>
            /\ worker[p].resp.status = 200 =>
                   worker[p].resp.details <= validated_count(worker[p].req.count)
            /\ worker[p].resp.status # 200 =>
                   worker[p].resp \in {[status |-> 500, body |-> "error"],
                                       [status |-> 500, body |-> "'details'"]}

====
